---------------------------- MODULE UploadProofs ----------------------------
(***************************************************************************)
(* What TLAPS proves of Upload for any number of ids, sessions, parts,      *)
(* tries, losses and rewrites: the types, that a session the client knows   *)
(* of stays open only if its abort was lost to the last try, that what the  *)
(* client takes for synchronised is on the server, and that a file nobody   *)
(* rewrites is one object there even if a request is lost.                  *)
(***************************************************************************)
EXTENDS Upload, FiniteSetTheorems, TLAPS

-----------------------------------------------------------------------------
(* The inductive invariant.                                                 *)

Kind == {"new", "reupload", "version", "fresh"}
Call == [step : Steps, kind : Kind, hash : Contents \cup {None}, read : Bytes,
         attempt : 1..Attempts, sid : Sid \cup {None}, id : Id \cup {None}]

Typed ==
  /\ size \in Size /\ local \in Contents
  /\ row \in {NoRow} \cup [id : Id, hash : Contents]
  /\ object \in [Id -> {None, Gone} \cup Object]
  /\ session \in [Sid -> {None, Gone} \cup Bytes]
  /\ call \in Call
  /\ aside \subseteq Contents /\ due \in BOOLEAN
  /\ spent \in [losses : 0..Losses, edits : 0..Edits]

Sending ==
  \/ call.step \in {"put", "complete", "abort"}
  \/ call.step = "read" /\ InSession(call.kind)
Busy == call.step # "idle"
AtEnd == call.step \in {"check", "delete", "record"}

(* Which steps a kind of upload takes.                                      *)
StepOfKind ==
  /\ call.step \in {"init", "put", "complete", "abort"} => InSession(call.kind)
  /\ call.step = "create" => ~InSession(call.kind) /\ call.kind # "reupload"
  /\ call.step = "reupload" => call.kind = "reupload"
  /\ call.step \in {"check", "delete"} => call.kind = "new"
  /\ AtEnd => call.id \in Id
  /\ Busy => (call.kind = "new" <=> row = NoRow) /\ call.hash \in Contents

(* Sessions.                                                                *)
SessionTaken == Sending => call.sid \in Sid
SessionOver ==
  ~Sending /\ call.sid # None => session[call.sid] = Gone \/ spent.losses > Attempts
AbortPaid ==
  call.step = "abort" =>
    session[call.sid] = Gone \/ spent.losses >= call.attempt

(* Objects the row and the call name.                                       *)
RowKnown == row # NoRow =>
  /\ object[row.id] # None
  /\ row.id \in Live \/ spent.losses > 0
CallKnown == AtEnd =>
  /\ object[call.id] # None
  /\ call.id \in Live \/ (call.kind = "new" /\ call.step # "check" /\ spent.losses > 0)
Renamed == call.step \in {"check", "delete"} /\ call.id \in Live =>
  object[call.id].name # 0
FreshIsOther == call.step = "record" /\ call.kind = "fresh" => call.id # row.id

(* Contents.                                                                *)
Known == 0..spent.edits
NothingNewer ==
  /\ local \in [Part -> Known]
  /\ row # NoRow => row.hash \in [Part -> Known]
  /\ call.hash \in [Part -> Known] \cup {None}
  /\ call.read \in [Part -> Known \cup {None}]
  /\ \A i \in Live : object[i].bytes \in [Part -> Known]
Changed == Busy => row.hash # local
ReadIsLocal ==
  Busy /\ local = call.hash => \A k \in Part : call.read[k] \in {None, local[k]}
AllSent ==
  /\ call.step \in {"complete", "create", "reupload"} => AllRead
  /\ call.step = "complete" => session[call.sid] \in {Gone, call.read}
OnServer ==
  /\ call.step = "delete" => \E i \in Own : object[i].bytes = call.hash
  /\ (call.step = "check" \/ (call.step = "record" /\ call.kind = "fresh"))
       /\ local = call.hash => object[call.id].bytes = local
  /\ call.step = "record" /\ local = call.hash => \E i \in Live : object[i].bytes = local

Shape == Typed /\ StepOfKind /\ SessionTaken /\ AllSent
SessionsInv == SessionOver /\ AbortPaid
ObjectsInv == RowKnown /\ CallKnown /\ Renamed /\ FreshIsOther
ContentsInv == NothingNewer /\ Changed /\ ReadIsLocal /\ OnServer /\ AgreedIsShared
-----------------------------------------------------------------------------
(* What the ids and the names the server hands out are.                     *)

(* Min is one of the numbers it chooses from.                               *)
LEMMA MinIsIn ==
  ASSUME NEW S, S \subseteq Nat, S # {}
  PROVE  Min(S) \in S
<1>1. PICK x \in S : \A y \in S : <<y, x>> \notin OpToRel(<, Nat)
  BY NatLessThanWellFounded, WFMin
<1>2. \A y \in S : x <= y
  <2> SUFFICES ASSUME NEW y \in S, y < x PROVE FALSE
    OBVIOUS
  <2>1. <<y, x>> \in Nat \X Nat /\ <<y, x>>[1] < <<y, x>>[2]
    OBVIOUS
  <2>2. <<y, x>> \in {p \in Nat \X Nat : p[1] < p[2]}
    BY <2>1
  <2>3. QED
    BY <1>1, <2>2 DEF OpToRel
<1>3. QED
  BY <1>2 DEF Min

(* An id and a session the server opens were free.                          *)
LEMMA FreshIds ==
  /\ FreeIds # {} => FreshId \in Id /\ object[FreshId] = None
  /\ FreeSids # {} => Min(FreeSids) \in Sid /\ session[Min(FreeSids)] = None
<1>1. FreeIds \subseteq Nat /\ FreeSids \subseteq Nat
  BY UploadAssumption DEF FreeIds, FreeSids
<1>2. FreeIds # {} => FreshId \in FreeIds
  BY <1>1, MinIsIn DEF FreshId
<1>3. FreeSids # {} => Min(FreeSids) \in FreeSids
  BY <1>1, MinIsIn
<1>4. QED
  BY <1>2, <1>3 DEF FreeIds, FreeSids

(* One of as many names as there are objects, and one more, is free.        *)
LEMMA FreshNameIsFree ==
  /\ FreshName \in 0..Cardinality(Live) /\ Cardinality(Live) \in Nat
  /\ Named(FreshName) = {}
<1> DEFINE S == {n \in 0..Cardinality(Live) : Named(n) = {}}
<1>1. Live \subseteq Id /\ IsFiniteSet(Live) /\ Cardinality(Live) \in Nat
  BY UploadAssumption, FS_Subset, FS_CardinalityType DEF Live
<1>2. S # {}
  <2> SUFFICES ASSUME \A n \in 0..Cardinality(Live) : Named(n) # {} PROVE FALSE
    OBVIOUS
  <2> DEFINE f == [n \in 0..Cardinality(Live) |-> CHOOSE i \in Live : object[i].name = n]
  <2>1. \A n \in 0..Cardinality(Live) : f[n] \in Live /\ object[f[n]].name = n
    BY DEF Named
  <2>2. f \in [0..Cardinality(Live) -> Live]
    BY <2>1
  <2>3. /\ IsFiniteSet(0..Cardinality(Live))
        /\ Cardinality(Live) < Cardinality(0..Cardinality(Live))
    BY <1>1, FS_Interval
  <2> HIDE DEF f
  <2>4. \E m, n \in 0..Cardinality(Live) : m # n /\ f[m] = f[n]
    BY <1>1, <2>2, <2>3, FS_PigeonHole
  <2>5. QED
    BY <2>1, <2>4
<1>3. Min(S) \in S
  BY <1>1, <1>2, MinIsIn
<1>4. QED
  BY <1>1, <1>3 DEF FreshName
-----------------------------------------------------------------------------
(* The calls the steps lead to.                                             *)

(* The call that goes on to another step.                                   *)
LEMMA Going ==
  ASSUME call \in Call, NEW s \in Steps
  PROVE  /\ Goto(s) \in Call
         /\ Goto(s).step = s /\ Goto(s).attempt = 1 /\ Goto(s).kind = call.kind
         /\ Goto(s).hash = call.hash /\ Goto(s).read = call.read
         /\ Goto(s).sid = call.sid /\ Goto(s).id = call.id
<1>1. 1 \in 1..Attempts
  BY UploadAssumption
<1>2. QED
  BY <1>1 DEF Goto, Call

(* The call that starts.                                                    *)
LEMMA Starting ==
  ASSUME call \in Call, NEW k \in Kind, NEW h \in Contents
  PROVE  /\ Start(k, h) \in Call
         /\ Start(k, h).step = FirstStep(k) /\ Start(k, h).kind = k
         /\ Start(k, h).hash = h /\ Start(k, h).read = Unread
         /\ Start(k, h).sid = call.sid /\ Start(k, h).id = None
<1>1. FirstStep(k) \in Steps /\ Unread \in Bytes
  BY DEF FirstStep, Steps, Retried, Unread, Bytes
<1>2. 1 \in 1..Attempts
  BY UploadAssumption
<1>3. QED
  BY <1>1, <1>2 DEF Start, Call

(* The call that goes on with an object.                                    *)
LEMMA Naming ==
  ASSUME call \in Call, NEW s \in Steps, NEW i \in Id
  PROVE  LET c == [Goto(s) EXCEPT !.id = i] IN
         /\ c \in Call
         /\ c.step = s /\ c.attempt = 1 /\ c.kind = call.kind
         /\ c.hash = call.hash /\ c.read = call.read
         /\ c.sid = call.sid /\ c.id = i
<1>1. /\ Goto(s) \in Call
      /\ Goto(s).step = s /\ Goto(s).attempt = 1 /\ Goto(s).kind = call.kind
      /\ Goto(s).hash = call.hash /\ Goto(s).read = call.read
      /\ Goto(s).sid = call.sid
  BY Going
<1>2. QED
  BY <1>1 DEF Call

(* What was read of a file is whole once every part was read.               *)
LEMMA WholeRead ==
  ASSUME call \in Call, AllRead
  PROVE  call.read \in Contents
<1>1. call.read \in [Part -> Version \cup {None}]
  BY DEF Call, Bytes
<1>2. QED
  BY <1>1 DEF AllRead, Contents

(* The object a creation leaves.                                            *)
LEMMA Creating ==
  ASSUME object \in [Id -> {None, Gone} \cup Object], NEW bytes \in Contents,
         FreeIds # {}
  PROVE  /\ Created(bytes) \in [Id -> {None, Gone} \cup Object]
         /\ FreshId \in Id /\ object[FreshId] = None
         /\ Created(bytes)[FreshId] \in Object
         /\ Created(bytes)[FreshId].name = FreshName
         /\ Created(bytes)[FreshId].bytes = bytes
         /\ \A i \in Id : i # FreshId => Created(bytes)[i] = object[i]
<1> DEFINE new == [name |-> FreshName, bytes |-> bytes]
<1>1. new \in Object /\ new.name = FreshName /\ new.bytes = bytes
  BY FreshNameIsFree DEF Object
<1>2. FreshId \in Id /\ object[FreshId] = None
  BY FreshIds
<1>3. Created(bytes) = [object EXCEPT ![FreshId] = new]
  BY DEF Created
<1> HIDE DEF new
<1>4. QED
  BY <1>1, <1>2, <1>3

(* The object a new version leaves.                                         *)
LEMMA Rewriting ==
  ASSUME object \in [Id -> {None, Gone} \cup Object], NEW bytes \in Contents,
         NEW i \in Live
  PROVE  LET o == [object EXCEPT ![i].bytes = bytes] IN
         /\ o \in [Id -> {None, Gone} \cup Object]
         /\ i \in Id /\ o[i] \in Object
         /\ o[i].name = object[i].name /\ o[i].bytes = bytes
         /\ \A j \in Id : j # i => o[j] = object[j]
<1> DEFINE new == [object[i] EXCEPT !.bytes = bytes]
<1>1. i \in Id /\ object[i] \in Object
  BY DEF Live
<1>2. new \in Object /\ new.name = object[i].name /\ new.bytes = bytes
  BY <1>1 DEF Object
<1>3. [object EXCEPT ![i].bytes = bytes] = [object EXCEPT ![i] = new]
  BY <1>1
<1> HIDE DEF new
<1>4. QED
  BY <1>1, <1>2, <1>3

(* The call goes on with the new object.                                    *)
LEMMA Storing ==
  ASSUME call \in Call, FreeIds # {}
  PROVE  /\ Stored \in Call
         /\ Stored.step \in {"check", "record"} /\ Stored.id = FreshId
         /\ Stored.step = "check" <=> call.kind = "new" /\ FreshName # 0
         /\ Stored.kind = call.kind /\ Stored.hash = call.hash
         /\ Stored.read = call.read /\ Stored.sid = call.sid
<1>1. FreshId \in Id /\ "check" \in Steps /\ "record" \in Steps
  BY FreshIds DEF Steps, Retried
<1>2. CASE call.kind = "new" /\ FreshName # 0
  <2>1. Stored = [Goto("check") EXCEPT !.id = FreshId]
    BY <1>2 DEF Stored
  <2>2. QED
    BY <1>1, <1>2, <2>1, Naming
<1>3. CASE ~(call.kind = "new" /\ FreshName # 0)
  <2>1. Stored = [Goto("record") EXCEPT !.id = FreshId]
    BY <1>3 DEF Stored
  <2>2. QED
    BY <1>1, <1>3, <2>1, Naming
<1>4. QED
  BY <1>2, <1>3

(* How a step changes the call: on to another step, the same once more, or  *)
(* a new start.                                                             *)
Keeps ==
  /\ call'.kind = call.kind /\ call'.hash = call.hash /\ call'.read = call.read
  /\ call'.sid = call.sid /\ call'.id = call.id
To(s) == Keeps /\ call'.step = s /\ call'.attempt = 1
Again == Keeps /\ call'.step = call.step /\ call'.attempt = call.attempt + 1
Afresh(k, h) ==
  /\ call'.step = FirstStep(k) /\ call'.kind = k /\ call'.hash = h
  /\ call'.read = Unread /\ call'.sid = call.sid /\ call'.id = None

Failing ==
  \/ call.kind = "version" /\ Afresh("fresh", call.hash)
  \/ call.kind # "version" /\ To("idle")
GivingUp ==
  \/ call.step \in {"put", "complete"} /\ To("abort")
  \/ call.step = "delete" /\ To("record")
  \/ call.step \notin {"put", "complete", "delete"} /\ Failing
Losing ==
  \/ call.step \in Retried /\ Again
  \/ GivingUp

(* What an error leads to.                                                  *)
LEMMA Fails ==
  ASSUME Shape, Busy, call' = AfterFailure
  PROVE  call' \in Call /\ Failing
<1>1. call \in Call /\ call.hash \in Contents
  BY DEF Shape, Typed, StepOfKind
<1>2. CASE call.kind = "version"
  <2>1. call' = Start("fresh", call.hash) /\ "fresh" \in Kind
    BY <1>2 DEF AfterFailure, Kind
  <2>2. QED
    BY <1>1, <1>2, <2>1, Starting DEF Failing, Afresh
<1>3. CASE call.kind # "version"
  <2>1. call' = Goto("idle") /\ "idle" \in Steps
    BY <1>3 DEF AfterFailure, Steps
  <2>2. QED
    BY <1>1, <1>3, <2>1, Going DEF Failing, To, Keeps
<1>4. QED
  BY <1>2, <1>3

(* What a request given up leads to.                                        *)
LEMMA GivesUp ==
  ASSUME Shape, Busy, call' = AfterGivingUp
  PROVE  call' \in Call /\ GivingUp
<1>1. call \in Call /\ "abort" \in Steps /\ "record" \in Steps
  BY DEF Shape, Typed, Steps, Retried
<1>2. CASE call.step \in {"put", "complete"}
  <2>1. call' = Goto("abort")
    BY <1>2 DEF AfterGivingUp
  <2>2. QED
    BY <1>1, <1>2, <2>1, Going DEF GivingUp, To, Keeps
<1>3. CASE call.step = "delete"
  <2>1. call' = Goto("record")
    BY <1>3 DEF AfterGivingUp
  <2>2. QED
    BY <1>1, <1>3, <2>1, Going DEF GivingUp, To, Keeps
<1>4. CASE call.step \notin {"put", "complete", "delete"}
  BY <1>4, Fails DEF AfterGivingUp, GivingUp
<1>5. QED
  BY <1>2, <1>3, <1>4

(* What an answer that does not come leads to.                              *)
LEMMA Loses ==
  ASSUME Shape, Busy, Unanswered
  PROVE  /\ call' \in Call /\ Losing
         /\ spent' \in [losses : 0..Losses, edits : 0..Edits]
         /\ spent'.losses = spent.losses + 1 /\ spent'.edits = spent.edits
<1> USE UploadAssumption
<1>1. /\ spent' \in [losses : 0..Losses, edits : 0..Edits]
      /\ spent'.losses = spent.losses + 1 /\ spent'.edits = spent.edits
  BY DEF Unanswered, Lose, Shape, Typed
<1>2. CASE call.step \in Retried /\ call.attempt < Attempts
  <2>1. call' = [call EXCEPT !.attempt = @ + 1] /\ call \in Call
    BY <1>2 DEF Unanswered, Shape, Typed
  <2>2. call.attempt + 1 \in 1..Attempts
    BY <1>2, <2>1 DEF Call
  <2>3. QED
    BY <1>1, <1>2, <2>1, <2>2 DEF Call, Losing, Again, Keeps
<1>3. CASE ~(call.step \in Retried /\ call.attempt < Attempts)
  BY <1>1, <1>3, GivesUp DEF Unanswered, Losing
<1>4. QED
  BY <1>2, <1>3

(* The shape of a call survives a request that is lost.                     *)
LEMMA LostInShape ==
  ASSUME Shape, Losing, Busy, call.step # "read", UNCHANGED <<size, row>>,
         call'.step = "complete" => session'[call.sid] \in {Gone, call.read}
  PROVE  StepOfKind' /\ SessionTaken' /\ AllSent'
<1> USE DEF Losing, GivingUp, Failing, Again, To, Keeps, Afresh, FirstStep,
    InSession, Busy, Shape
<1>1. StepOfKind'
  BY DEF StepOfKind, AtEnd
<1>2. SessionTaken'
  BY DEF SessionTaken, Sending
<1>3. AllSent'
  BY DEF AllSent, AllRead
<1>4. QED
  BY <1>1, <1>2, <1>3
-----------------------------------------------------------------------------
(* A step the call takes of its own keeps the shape.                        *)
LEMMA ToInShape ==
  ASSUME Shape, NEW s \in Steps, call'.step = s, Busy,
         call'.kind = call.kind, call'.hash = call.hash, call'.read = call.read,
         call'.sid = call.sid,
         UNCHANGED <<size, row>>,
         s \in {"init", "put", "complete", "abort"} => InSession(call.kind),
         s = "create" => ~InSession(call.kind) /\ call.kind # "reupload",
         s = "reupload" => call.kind = "reupload",
         s \in {"check", "delete"} => call.kind = "new",
         s \in {"check", "delete", "record"} => call'.id \in Id,
         s \in {"put", "complete", "abort", "read"} => Sending,
         s \in {"complete", "create", "reupload"} => AllRead,
         s = "complete" => session'[call.sid] \in {Gone, call.read}
  PROVE  StepOfKind' /\ SessionTaken' /\ AllSent'
<1> USE DEF InSession, Busy, Shape
<1>1. StepOfKind'
  BY DEF StepOfKind, AtEnd
<1>2. SessionTaken'
  BY DEF SessionTaken, Sending
<1>3. AllSent'
  BY DEF AllSent, AllRead
<1>4. QED
  BY <1>1, <1>2, <1>3

(* Every step keeps the types and the shape of the call.                    *)
LEMMA ShapeKept ==
  ASSUME Shape, ObjectsInv, [Next]_vars
  PROVE  Shape'
<1> USE UploadAssumption, OverAssumption
<1> DEFINE Half == StepOfKind' /\ SessionTaken' /\ AllSent'
<1>a. /\ size \in Size /\ local \in Contents
      /\ row \in {NoRow} \cup [id : Id, hash : Contents]
      /\ object \in [Id -> {None, Gone} \cup Object]
      /\ session \in [Sid -> {None, Gone} \cup Bytes]
      /\ call \in Call /\ aside \subseteq Contents /\ due \in BOOLEAN
      /\ spent \in [losses : 0..Losses, edits : 0..Edits]
  BY DEF Shape, Typed
<1>b. /\ call.step \in Steps /\ call.kind \in Kind /\ call.read \in Bytes
      /\ call.hash \in Contents \cup {None} /\ call.sid \in Sid \cup {None}
      /\ call.id \in Id \cup {None} /\ call.attempt \in 1..Attempts
  BY <1>a DEF Call
<1>c. Live \subseteq Id /\ \A i \in Live : object[i] \in Object
  BY <1>a DEF Live
<1>d. {"idle", "init", "read", "put", "complete", "abort", "create", "check",
       "delete", "reupload", "record"} \subseteq Steps
  BY DEF Steps, Retried
<1>e. ASSUME Busy, NEW s \in {"idle", "abort", "record", "delete"},
             s = "abort" => Sending /\ InSession(call.kind),
             s = "delete" => call.kind = "new",
             s \in {"record", "delete"} => AtEnd, call' = Goto(s), spent' = spent,
             UNCHANGED <<size, local, row, object, session, aside, due>>
      PROVE  Shape'
  <2>1. s \in Steps
    BY <1>d
  <2>2. call' \in Call /\ To(s)
    BY <1>a, <1>e, <2>1, Going DEF To, Keeps
  <2>3. StepOfKind' /\ SessionTaken' /\ AllSent'
    BY <1>e, <2>1, <2>2, ToInShape DEF To, Keeps, Shape, StepOfKind
  <2>4. QED
    BY <1>a, <1>e, <2>2, <2>3 DEF Shape, Typed
<1>1. ASSUME Begin PROVE Shape'
  <2> DEFINE k == IF row = NoRow THEN "new"
                  ELSE IF size = "large" THEN "version" ELSE "reupload"
  <2>1. k \in Kind /\ call' = Start(k, local) /\ due' = FALSE
        /\ UNCHANGED <<size, local, row, object, session, aside, spent>>
    BY <1>1 DEF Begin, Kind
  <2>2. /\ call' \in Call /\ call'.step = FirstStep(k) /\ call'.kind = k
        /\ call'.hash = local /\ call'.read = Unread /\ call'.sid = call.sid
    BY <1>a, <2>1, Starting
  <2>3. Typed'
    BY <1>a, <2>1, <2>2 DEF Typed
  <2>4. (k = "new" <=> row = NoRow)
    OBVIOUS
  <2> HIDE DEF k
  <2>5. StepOfKind'
    BY <1>a, <2>1, <2>2, <2>4 DEF StepOfKind, FirstStep, InSession, Busy, AtEnd
  <2>6. SessionTaken' /\ AllSent'
    BY <2>1, <2>2 DEF SessionTaken, Sending, FirstStep, InSession, AllSent
  <2>7. QED
    BY <2>3, <2>5, <2>6 DEF Shape
<1>2. ASSUME NeverArrives PROVE Shape'
  <2>1. Busy /\ call.step # "read" /\ Unanswered
        /\ UNCHANGED <<size, local, row, object, session, aside, due>>
    BY <1>2 DEF NeverArrives, Busy, Retried
  <2>2. /\ call' \in Call /\ Losing
        /\ spent' \in [losses : 0..Losses, edits : 0..Edits]
    BY <2>1, Loses
  <2>3. call'.step = "complete" => session'[call.sid] \in {Gone, call.read}
    BY <2>1, <2>2 DEF Losing, GivingUp, Failing, Again, To, Afresh, FirstStep,
       Shape, AllSent
  <2>4. QED
    BY <1>a, <2>1, <2>2, <2>3, LostInShape DEF Shape, Typed
<1>3. ASSUME Refused PROVE Shape'
  <2>1. Busy /\ call.step # "read" /\ Lose /\ call' = AfterGivingUp
        /\ UNCHANGED <<size, local, row, object, session, aside, due>>
    BY <1>3 DEF Refused, Busy
  <2>2. /\ call' \in Call /\ GivingUp
        /\ spent' \in [losses : 0..Losses, edits : 0..Edits]
    BY <1>a, <2>1, GivesUp DEF Lose
  <2>3. call'.step # "complete"
    BY <2>2 DEF GivingUp, Failing, To, Afresh, FirstStep
  <2>4. QED
    BY <1>a, <2>1, <2>2, <2>3, LostInShape DEF Shape, Typed, Losing
<1>4. ASSUME ReadPart PROVE Shape'
  <2> DEFINE got == [call.read EXCEPT ![NextPart] = local[NextPart]]
             last == \A k \in Part : got[k] # None
  <2>1. call.step = "read" /\ UNCHANGED <<size, local, row, object, session, aside, due, spent>>
    BY <1>4 DEF ReadPart
  <2>2. got \in Bytes
    BY <1>a, <1>b DEF Bytes, Contents
  <2> DEFINE s == CASE call.kind = "reupload" -> IF last THEN "reupload" ELSE "read"
                    [] InSession(call.kind) -> "put"
                    [] OTHER -> IF last THEN "create" ELSE "read"
  <2>a. call' = [call EXCEPT !.read = got, !.attempt = 1, !.step = s]
    BY <1>4 DEF ReadPart
  <2> HIDE DEF got
  <2>3. /\ s \in {"read", "reupload", "put", "create"}
        /\ s = "reupload" => call.kind = "reupload" /\ last
        /\ s = "put" => InSession(call.kind)
        /\ s = "create" => ~InSession(call.kind) /\ call.kind # "reupload" /\ last
    BY DEF InSession
  <2>4. 1 \in 1..Attempts /\ s \in Steps
    BY <1>d, <2>3
  <2> HIDE DEF s
  <2>5. /\ call' \in Call /\ call'.step = s /\ call'.read = got
        /\ call'.kind = call.kind /\ call'.hash = call.hash /\ call'.sid = call.sid
    BY <1>a, <2>a, <2>2, <2>3, <2>4 DEF Call
  <2>6. Typed'
    BY <1>a, <2>1, <2>5 DEF Typed
  <2>7. StepOfKind'
    BY <2>1, <2>3, <2>5 DEF StepOfKind, Shape, Busy, InSession, AtEnd
  <2>8. SessionTaken'
    BY <2>1, <2>3, <2>5 DEF SessionTaken, Shape, Sending, InSession
  <2>9. AllSent'
    BY <2>1, <2>3, <2>5 DEF AllSent, AllRead
  <2>10. QED
    BY <2>6, <2>7, <2>8, <2>9 DEF Shape
<1>5. ASSUME OpenSession PROVE Shape'
  <2> DEFINE t == Min(FreeSids)
  <2>1. /\ call.step = "init" /\ FreeSids # {} /\ session' = [session EXCEPT ![t] = Unread]
        /\ UNCHANGED <<size, local, row, object, aside, due>>
        /\ Answered([Goto("read") EXCEPT !.sid = t]) \/ Unanswered
    BY <1>5 DEF OpenSession
  <2>2. t \in Sid /\ InSession(call.kind) /\ Busy
    BY <2>1, FreshIds DEF Shape, StepOfKind, Busy
  <2> HIDE DEF t
  <2>3. session' \in [Sid -> {None, Gone} \cup Bytes]
    BY <1>a, <2>1 DEF Unread, Bytes
  <2>4. CASE Answered([Goto("read") EXCEPT !.sid = t])
    <3>1. /\ Goto("read") \in Call /\ Goto("read").step = "read"
          /\ Goto("read").kind = call.kind /\ Goto("read").hash = call.hash
      BY <1>a, <1>d, Going
    <3>2. /\ call' \in Call /\ call'.step = "read" /\ call'.sid = t
          /\ call'.kind = call.kind /\ call'.hash = call.hash /\ spent' = spent
      BY <2>2, <2>4, <3>1 DEF Answered, Call
    <3>3. Typed'
      BY <1>a, <2>1, <2>3, <3>2 DEF Typed
    <3>4. StepOfKind'
      BY <2>1, <2>2, <3>2 DEF StepOfKind, Shape, Busy, AtEnd
    <3>5. SessionTaken' /\ AllSent'
      BY <2>2, <3>2 DEF SessionTaken, AllSent
    <3>6. QED
      BY <3>3, <3>4, <3>5 DEF Shape
  <2>5. CASE Unanswered
    <3>1. /\ call' \in Call /\ Losing
          /\ spent' \in [losses : 0..Losses, edits : 0..Edits]
      BY <2>2, <2>5, Loses
    <3>2. call'.step # "complete"
      BY <2>1, <3>1 DEF Losing, GivingUp, Failing, Again, To, Afresh, FirstStep
    <3>3. QED
      BY <1>a, <2>1, <2>2, <2>3, <3>1, <3>2, LostInShape DEF Shape, Typed
  <2>6. QED
    BY <2>1, <2>4, <2>5
<1>6. ASSUME PutPart PROVE Shape'
  <2>1. /\ call.step = "put" /\ session' = [session EXCEPT ![call.sid] = call.read]
        /\ UNCHANGED <<size, local, row, object, aside, due>>
    BY <1>6 DEF PutPart
  <2>2. call.sid \in Sid /\ InSession(call.kind) /\ Busy /\ Sending
    BY <2>1 DEF Shape, SessionTaken, StepOfKind, Sending, Busy
  <2>3. session' \in [Sid -> {None, Gone} \cup Bytes] /\ session'[call.sid] = call.read
    BY <1>a, <1>b, <2>1, <2>2
  <2>4. CASE Answered(Goto(IF AllRead THEN "complete" ELSE "read"))
    <3>1. PICK s \in {"complete", "read"} :
            call' = Goto(s) /\ spent' = spent /\ (s = "complete" => AllRead)
      BY <2>4 DEF Answered
    <3>2. s \in Steps
      BY <1>d
    <3>3. call' \in Call /\ To(s)
      BY <1>a, <3>1, <3>2, Going DEF To, Keeps
    <3>4. StepOfKind' /\ SessionTaken' /\ AllSent'
      BY <2>1, <2>2, <2>3, <3>1, <3>2, <3>3, ToInShape DEF To, Keeps
    <3>5. QED
      BY <1>a, <2>1, <2>3, <3>1, <3>3, <3>4 DEF Shape, Typed
  <2>5. CASE Unanswered
    <3>1. /\ call' \in Call /\ Losing
          /\ spent' \in [losses : 0..Losses, edits : 0..Edits]
      BY <2>2, <2>5, Loses
    <3>2. QED
      BY <1>a, <2>1, <2>2, <2>3, <3>1, LostInShape DEF Shape, Typed
  <2>6. QED
    BY <1>6, <2>4, <2>5 DEF PutPart
<1>7. ASSUME Complete PROVE Shape'
  <2>1. /\ call.step = "complete" /\ session[call.sid] # Gone
        /\ session' = [session EXCEPT ![call.sid] = Gone]
        /\ UNCHANGED <<size, local, row, aside, due>>
    BY <1>7 DEF Complete
  <2>2. /\ call.sid \in Sid /\ InSession(call.kind) /\ Busy /\ Sending /\ AllRead
        /\ session[call.sid] = call.read /\ call.read \in Contents
    BY <1>a, <2>1, WholeRead
       DEF Shape, SessionTaken, StepOfKind, Sending, Busy, AllSent
  <2>3. session' \in [Sid -> {None, Gone} \cup Bytes] /\ session'[call.sid] = Gone
    BY <1>a, <2>1, <2>2
  <2>4. ASSUME Unanswered, object' \in [Id -> {None, Gone} \cup Object]
        PROVE  Shape'
    <3>1. /\ call' \in Call /\ Losing
          /\ spent' \in [losses : 0..Losses, edits : 0..Edits]
      BY <2>2, <2>4, Loses
    <3>2. QED
      BY <1>a, <2>1, <2>2, <2>3, <2>4, <3>1, LostInShape DEF Shape, Typed
  <2>5. ASSUME NEW s \in {"check", "record"}, s = "check" => call.kind = "new",
               call' \in Call, call'.step = s, call'.kind = call.kind,
               call'.hash = call.hash, call'.read = call.read,
               call'.sid = call.sid, call'.id \in Id, spent' = spent,
               object' \in [Id -> {None, Gone} \cup Object]
        PROVE  Shape'
    <3>1. s \in Steps
      BY <1>d
    <3>2. StepOfKind' /\ SessionTaken' /\ AllSent'
      BY <2>1, <2>2, <2>5, <3>1, ToInShape
    <3>3. QED
      BY <1>a, <2>1, <2>3, <2>5, <3>2 DEF Shape, Typed
  <2>6. CASE call.kind = "version"
    <3>1. /\ row.id \in Live
          /\ object' = [object EXCEPT ![row.id].bytes = call.read]
          /\ Answered([Goto("record") EXCEPT !.id = row.id]) \/ Unanswered
      BY <1>7, <2>2, <2>6 DEF Complete
    <3>2. object' \in [Id -> {None, Gone} \cup Object] /\ row.id \in Id
      BY <1>a, <2>2, <3>1, Rewriting
    <3>3. CASE Answered([Goto("record") EXCEPT !.id = row.id])
      <4>1. /\ call' \in Call /\ call'.step = "record" /\ call'.kind = call.kind
            /\ call'.hash = call.hash /\ call'.read = call.read
            /\ call'.sid = call.sid /\ call'.id \in Id /\ spent' = spent
        BY <1>a, <1>d, <3>2, <3>3, Naming DEF Answered
      <4>2. QED
        BY <2>5, <3>2, <4>1
    <3>4. QED
      BY <2>4, <3>1, <3>2, <3>3
  <2>7. CASE call.kind # "version"
    <3>1. /\ FreeIds # {} /\ object' = Created(call.read)
          /\ Answered(Stored) \/ Unanswered
      BY <1>7, <2>2, <2>7 DEF Complete
    <3>2. object' \in [Id -> {None, Gone} \cup Object]
      BY <1>a, <2>2, <3>1, Creating
    <3>3. CASE Answered(Stored)
      <4>1. /\ call' \in Call /\ call'.step \in {"check", "record"}
            /\ call'.step = "check" => call.kind = "new"
            /\ call'.kind = call.kind
            /\ call'.hash = call.hash /\ call'.read = call.read
            /\ call'.sid = call.sid /\ call'.id \in Id /\ spent' = spent
        BY <1>a, <3>1, <3>3, FreshIds, Storing DEF Answered
      <4>2. QED
        BY <2>5, <3>2, <4>1
    <3>4. QED
      BY <2>4, <3>1, <3>2, <3>3
  <2>8. QED
    BY <2>6, <2>7
<1>8. ASSUME Create PROVE Shape'
  <2>1. /\ call.step = "create" /\ FreeIds # {} /\ object' = Created(call.read)
        /\ Answered(Stored) \/ Unanswered
        /\ UNCHANGED <<size, local, row, session, aside, due>>
    BY <1>8 DEF Create
  <2>2. Busy /\ AllRead /\ call.read \in Contents
    BY <1>a, <2>1, WholeRead DEF Shape, Busy, AllSent
  <2>3. object' \in [Id -> {None, Gone} \cup Object]
    BY <1>a, <2>1, <2>2, Creating
  <2>4. CASE Answered(Stored)
    <3>1. PICK s \in {"check", "record"} :
            /\ call' \in Call /\ call'.step = s
            /\ s = "check" => call.kind = "new"
            /\ call'.kind = call.kind
            /\ call'.hash = call.hash /\ call'.read = call.read
            /\ call'.sid = call.sid /\ call'.id \in Id /\ spent' = spent
      BY <1>a, <2>1, <2>4, FreshIds, Storing DEF Answered
    <3>2. s \in Steps
      BY <1>d
    <3>3. StepOfKind' /\ SessionTaken' /\ AllSent'
      BY <2>1, <2>2, <3>1, <3>2, ToInShape
    <3>4. QED
      BY <1>a, <2>1, <2>3, <3>1, <3>3 DEF Shape, Typed
  <2>5. CASE Unanswered
    <3>1. /\ call' \in Call /\ Losing
          /\ spent' \in [losses : 0..Losses, edits : 0..Edits]
      BY <2>2, <2>5, Loses
    <3>2. call'.step # "complete"
      BY <2>1, <3>1 DEF Losing, GivingUp, Failing, Again, To, Afresh, FirstStep
    <3>3. QED
      BY <1>a, <2>1, <2>2, <2>3, <3>1, <3>2, LostInShape DEF Shape, Typed
  <2>6. QED
    BY <2>1, <2>4, <2>5
<1>9. ASSUME Reupload PROVE Shape'
  <2>1. /\ call.step = "reupload" /\ row.id \in Live
        /\ object' = [object EXCEPT ![row.id].bytes = call.read]
        /\ Answered([Goto("record") EXCEPT !.id = row.id]) \/ Unanswered
        /\ UNCHANGED <<size, local, row, session, aside, due>>
    BY <1>9 DEF Reupload
  <2>2. Busy /\ AllRead /\ call.read \in Contents
    BY <1>a, <2>1, WholeRead DEF Shape, Busy, AllSent
  <2>3. object' \in [Id -> {None, Gone} \cup Object] /\ row.id \in Id
    BY <1>a, <2>1, <2>2, Rewriting
  <2>4. CASE Answered([Goto("record") EXCEPT !.id = row.id])
    <3>1. /\ call' \in Call /\ call'.step = "record" /\ call'.kind = call.kind
          /\ call'.hash = call.hash /\ call'.read = call.read
          /\ call'.sid = call.sid /\ call'.id \in Id /\ spent' = spent
      BY <1>a, <1>d, <2>3, <2>4, Naming DEF Answered
    <3>2. StepOfKind' /\ SessionTaken' /\ AllSent'
      BY <1>d, <2>1, <2>2, <3>1, ToInShape
    <3>3. QED
      BY <1>a, <2>1, <2>3, <3>1, <3>2 DEF Shape, Typed
  <2>5. CASE Unanswered
    <3>1. /\ call' \in Call /\ Losing
          /\ spent' \in [losses : 0..Losses, edits : 0..Edits]
      BY <2>2, <2>5, Loses
    <3>2. call'.step # "complete"
      BY <2>1, <3>1 DEF Losing, GivingUp, Failing, Again, To, Afresh, FirstStep
    <3>3. QED
      BY <1>a, <2>1, <2>2, <2>3, <3>1, <3>2, LostInShape DEF Shape, Typed
  <2>6. QED
    BY <2>1, <2>4, <2>5
<1>10. ASSUME CompleteUnknown PROVE Shape'
  <2>1. Busy /\ Sending /\ InSession(call.kind)
    BY <1>10 DEF CompleteUnknown, Busy, Sending, Shape, StepOfKind
  <2>2. QED
    BY <1>10, <1>e, <2>1 DEF CompleteUnknown, Answered
<1>11. ASSUME ReuploadUnknown PROVE Shape'
  BY <1>11, <1>e DEF ReuploadUnknown, Answered, Busy
<1>12. ASSUME AbortSession PROVE Shape'
  <2>1. /\ call.step = "abort" /\ session' = [session EXCEPT ![call.sid] = Gone]
        /\ Answered(AfterFailure) \/ Unanswered
        /\ UNCHANGED <<size, local, row, object, aside, due>>
    BY <1>12 DEF AbortSession
  <2>2. Busy /\ session' \in [Sid -> {None, Gone} \cup Bytes]
    BY <1>a, <2>1 DEF Busy
  <2>3. call' \in Call /\ Losing /\ spent' \in [losses : 0..Losses, edits : 0..Edits]
    <3>1. CASE Answered(AfterFailure)
      BY <1>a, <2>1, <2>2, <3>1, Fails DEF Answered, Losing, GivingUp
    <3>2. CASE Unanswered
      BY <2>2, <3>2, Loses
    <3>3. QED
      BY <2>1, <3>1, <3>2
  <2>4. call'.step # "complete"
    BY <2>1, <2>3 DEF Losing, GivingUp, Failing, Again, To, Afresh, FirstStep
  <2>5. QED
    BY <1>a, <2>1, <2>2, <2>3, <2>4, LostInShape DEF Shape, Typed
<1>13. ASSUME CheckName PROVE Shape'
  <2>1. Busy /\ call.kind = "new"
    BY <1>13 DEF CheckName, Busy, Shape, StepOfKind
  <2>2. QED
    BY <1>13, <1>e, <2>1 DEF CheckName, Answered, AtEnd
<1>14. ASSUME DropCopy PROVE Shape'
  <2>1. /\ call.step = "delete" /\ call.id \in Live
        /\ object' = [object EXCEPT ![call.id] = Gone]
        /\ (\E i \in Own : Answered([Goto("record") EXCEPT !.id = i])) \/ Unanswered
        /\ UNCHANGED <<size, local, row, session, aside, due>>
    BY <1>14 DEF DropCopy
  <2>2. Busy /\ object' \in [Id -> {None, Gone} \cup Object]
    BY <1>a, <2>1 DEF Busy
  <2>3. ASSUME NEW i \in Own, Answered([Goto("record") EXCEPT !.id = i])
        PROVE  Shape'
    <3>1. i \in Id
      BY <1>c DEF Own, Named
    <3>2. /\ call' \in Call /\ call'.step = "record" /\ call'.kind = call.kind
          /\ call'.hash = call.hash /\ call'.read = call.read
          /\ call'.sid = call.sid /\ call'.id \in Id /\ spent' = spent
      BY <1>a, <1>d, <2>3, <3>1, Naming DEF Answered
    <3>3. StepOfKind' /\ SessionTaken' /\ AllSent'
      BY <1>d, <2>1, <2>2, <3>2, ToInShape
    <3>4. QED
      BY <1>a, <2>1, <2>2, <3>2, <3>3 DEF Shape, Typed
  <2>4. CASE Unanswered
    <3>1. /\ call' \in Call /\ Losing
          /\ spent' \in [losses : 0..Losses, edits : 0..Edits]
      BY <2>2, <2>4, Loses
    <3>2. call'.step # "complete"
      BY <2>1, <3>1 DEF Losing, GivingUp, Failing, Again, To, Afresh, FirstStep
    <3>3. QED
      BY <1>a, <2>1, <2>2, <3>1, <3>2, LostInShape DEF Shape, Typed
  <2>5. QED
    BY <2>1, <2>3, <2>4
<1>15. ASSUME DropCopyUnknown PROVE Shape'
  BY <1>15, <1>e DEF DropCopyUnknown, Answered, Busy, AtEnd
<1>16. ASSUME Record \/ Swap PROVE Shape'
  <2>1. /\ call.step = "record" /\ call' = Goto("idle")
        /\ UNCHANGED <<size, local, session, aside, due, spent>>
    BY <1>16 DEF Record, Swap
  <2>2. Busy /\ call.id \in Id /\ call.hash \in Contents
    BY <2>1 DEF Busy, Shape, StepOfKind, AtEnd
  <2>3. RowFor \in [id : Id, hash : Contents] /\ call' \in Call /\ To("idle")
    BY <1>a, <1>d, <2>1, <2>2, Going DEF RowFor, To, Keeps
  <2>4. row' \in {NoRow} \cup [id : Id, hash : Contents]
    BY <1>a, <1>16, <2>3 DEF Record, Swap
  <2>5. object' \in [Id -> {None, Gone} \cup Object]
    <3>1. CASE Swap /\ row.id \in Live
      <4>1. call.kind = "fresh"
        BY <3>1 DEF Swap
      <4> DEFINE new == [object[call.id] EXCEPT !.name = object[row.id].name]
      <4>2. call.id \in Live /\ call.id # row.id
        BY <2>1, <4>1 DEF ObjectsInv, CallKnown, FreshIsOther, AtEnd
      <4>3. new \in Object
        BY <1>c, <3>1, <4>2 DEF Object
      <4>4. object' = [object EXCEPT ![row.id] = Gone, ![call.id] = new]
        BY <1>a, <1>c, <3>1, <4>2 DEF Swap
      <4> HIDE DEF new
      <4>5. QED
        BY <1>a, <4>3, <4>4
    <3>2. QED
      BY <1>a, <1>16, <3>1 DEF Record, Swap
  <2>6. StepOfKind' /\ SessionTaken' /\ AllSent'
    BY <2>3 DEF To, StepOfKind, SessionTaken, AllSent, Busy, AtEnd, Sending
  <2>7. QED
    BY <1>a, <2>1, <2>3, <2>4, <2>5, <2>6 DEF Shape, Typed
<1>17. ASSUME Pull PROVE Shape'
  <2>1. /\ call.step = "idle" /\ due' = TRUE
        /\ UNCHANGED <<size, object, session, call, spent>>
    BY <1>17 DEF Pull
  <2>2. /\ local' \in Contents
        /\ row' \in {NoRow} \cup [id : Id, hash : Contents]
        /\ aside' \subseteq Contents
    <3>1. ASSUME NEW i \in Own
          PROVE  /\ Pulled(i).local \in Contents
                 /\ Pulled(i).row \in {NoRow} \cup [id : Id, hash : Contents]
                 /\ Pulled(i).aside \subseteq Contents
      <4>1. i \in Id /\ object[i].bytes \in Contents
        BY <1>c DEF Own, Named, Object
      <4>2. QED
        BY <1>a, <4>1 DEF Pulled
    <3>2. CASE Own = {}
      BY <1>17, <1>a, <3>2 DEF Pull
    <3>3. CASE Own # {}
      <4>1. PICK i \in Own : local' = Pulled(i).local /\ row' = Pulled(i).row
                             /\ aside' = Pulled(i).aside
        BY <1>17, <3>3 DEF Pull
      <4>2. QED
        BY <3>1, <4>1
    <3>4. QED
      BY <3>2, <3>3
  <2>3. StepOfKind' /\ SessionTaken' /\ AllSent'
    BY <2>1 DEF StepOfKind, SessionTaken, AllSent, Busy, AtEnd, Sending
  <2>4. QED
    BY <1>a, <2>1, <2>2, <2>3 DEF Shape, Typed
<1>18. ASSUME Edit PROVE Shape'
  <2>1. /\ UNCHANGED <<size, row, object, session, call, aside>> /\ due' = TRUE
        /\ spent.edits < Edits /\ spent' = [spent EXCEPT !.edits = @ + 1]
        /\ local' = Whole(spent.edits + 1)
    BY <1>18 DEF Edit
  <2>2. /\ spent' \in [losses : 0..Losses, edits : 0..Edits]
        /\ spent.edits + 1 \in Version
    BY <1>a, <2>1 DEF Version
  <2>3. local' \in Contents
    BY <2>1, <2>2 DEF Whole, Contents
  <2>4. StepOfKind' /\ SessionTaken' /\ AllSent'
    BY <2>1 DEF Shape, StepOfKind, SessionTaken, AllSent, AllRead, Busy, AtEnd,
       Sending, InSession
  <2>5. QED
    BY <1>a, <2>1, <2>2, <2>3, <2>4 DEF Shape, Typed
<1>19. CASE UNCHANGED vars
  BY <1>19 DEF vars, Shape, Typed, StepOfKind, SessionTaken, AllSent, AllRead,
     Busy, AtEnd, Sending, InSession
<1>20. QED
  BY <1>1, <1>2, <1>3, <1>4, <1>5, <1>6, <1>7, <1>8, <1>9, <1>10, <1>11, <1>12,
     <1>13, <1>14, <1>15, <1>16, <1>17, <1>18, <1>19 DEF Next, Client
-----------------------------------------------------------------------------
(* The objects the row and the call name.                                   *)

(* What lives is what was made and not dropped.                             *)
LEMMA Living ==
  ASSUME Shape
  PROVE  \A i \in Id : (i \in Live <=> object[i] \in Object) /\ (i \in Live <=> object[i] \notin {None, Gone})
BY OverAssumption DEF Shape, Typed, Live

(* A step that leaves the objects and the row alone, and goes on with the   *)
(* same object if it goes on with one.                                      *)
LEMMA ObjectsAside ==
  ASSUME Shape, ObjectsInv, UNCHANGED <<object, row>>,
         spent'.losses >= spent.losses, spent.losses \in Nat, spent'.losses \in Nat,
         AtEnd' => /\ AtEnd /\ call'.id = call.id /\ call'.kind = call.kind
                   /\ call'.step = "check" => call.step = "check"
                   /\ call'.step = "delete" => call.step \in {"check", "delete"}
  PROVE  ObjectsInv'
<1> USE DEF ObjectsInv
<1>1. Live' = Live
  BY DEF Live
<1>2. RowKnown'
  BY <1>1 DEF RowKnown
<1>3. CallKnown'
  BY <1>1 DEF CallKnown, AtEnd
<1>4. Renamed'
  BY <1>1 DEF Renamed, AtEnd
<1>5. FreshIsOther'
  BY DEF FreshIsOther, AtEnd, Shape, StepOfKind
<1>6. QED
  BY <1>2, <1>3, <1>4, <1>5

(* A step that ends none of them and gives the call the object it made.     *)
LEMMA ObjectsGrow ==
  ASSUME Shape, Shape', ObjectsInv, UNCHANGED row, Busy,
         spent'.losses >= spent.losses, spent.losses \in Nat, spent'.losses \in Nat,
         \A i \in Id : object[i] # None => object'[i] # None,
         \A i \in Live : i \in Live',
         AtEnd' => /\ call'.id \in Live' /\ call'.step # "delete"
                   /\ call'.step = "check" => object'[call'.id].name # 0
                   /\ call'.kind = "fresh" => call'.id # row.id
  PROVE  ObjectsInv'
<1> USE DEF ObjectsInv
<1>1. row # NoRow => row.id \in Id
  BY DEF Shape, Typed
<1>2. RowKnown'
  BY <1>1 DEF RowKnown
<1>3. CallKnown'
  BY DEF CallKnown, Live
<1>4. Renamed' /\ FreshIsOther'
  BY DEF Renamed, FreshIsOther, AtEnd
<1>5. QED
  BY <1>2, <1>3, <1>4

(* Every step keeps what is known of the objects the row and the call name. *)
LEMMA ObjectsKept ==
  ASSUME Shape, Shape', ObjectsInv, [Next]_vars
  PROVE  ObjectsInv'
<1> USE UploadAssumption, OverAssumption
<1>a. /\ row \in {NoRow} \cup [id : Id, hash : Contents]
      /\ object \in [Id -> {None, Gone} \cup Object]
      /\ call \in Call /\ call.kind \in Kind
      /\ spent \in [losses : 0..Losses, edits : 0..Edits]
      /\ spent.losses \in Nat
  BY DEF Shape, Typed, Call
<1>b. {"idle", "read", "abort", "record", "delete", "complete"} \subseteq Steps
  BY DEF Steps, Retried
<1>c. Live \subseteq Id
  BY DEF Live
<1>d. ASSUME Busy, Unanswered
      PROVE  /\ Losing /\ spent'.losses \in Nat /\ spent'.losses > spent.losses
             /\ AtEnd' =>
                  /\ AtEnd /\ call'.id = call.id /\ call'.kind = call.kind
                  /\ \/ call'.step = call.step
                     \/ call.step = "delete" /\ call'.step = "record"
  <2>1. Losing /\ spent'.losses = spent.losses + 1
    BY <1>d, Loses
  <2>2. QED
    BY <1>a, <2>1
       DEF Losing, GivingUp, Failing, Again, To, Keeps, Afresh, FirstStep, AtEnd
<1>1. ASSUME Begin PROVE ObjectsInv'
  <2>1. \E k \in Kind : call' = Start(k, local)
    BY <1>1 DEF Begin, Kind
  <2>2. ~AtEnd'
    BY <1>a, <2>1, Starting DEF AtEnd, FirstStep, Shape, Typed
  <2>3. QED
    BY <1>1, <1>a, <2>2, ObjectsAside DEF Begin
<1>2. ASSUME NeverArrives PROVE ObjectsInv'
  <2>1. Busy /\ Unanswered /\ UNCHANGED <<object, row>>
    BY <1>2 DEF NeverArrives, Busy, Retried
  <2>2. /\ spent'.losses \in Nat /\ spent'.losses > spent.losses
        /\ AtEnd' =>
             /\ AtEnd /\ call'.id = call.id /\ call'.kind = call.kind
             /\ call'.step = "check" => call.step = "check"
             /\ call'.step = "delete" => call.step \in {"check", "delete"}
    BY <1>d, <2>1
  <2>3. QED
    BY <1>a, <2>1, <2>2, ObjectsAside
<1>3. ASSUME Refused PROVE ObjectsInv'
  <2>1. /\ Busy /\ ~AtEnd /\ call' = AfterGivingUp /\ UNCHANGED <<object, row>>
        /\ spent'.losses \in Nat /\ spent'.losses > spent.losses
    BY <1>3, <1>a DEF Refused, Busy, AtEnd, Lose
  <2>2. ~AtEnd'
    BY <2>1, GivesUp DEF AtEnd, GivingUp, Failing, To, Afresh, FirstStep
  <2>3. QED
    BY <1>a, <2>1, <2>2, ObjectsAside
<1>4. ASSUME ReadPart PROVE ObjectsInv'
  <2>1. ~AtEnd' /\ UNCHANGED <<object, row, spent>>
    BY <1>4, <1>a DEF ReadPart, AtEnd, Call
  <2>2. QED
    BY <1>a, <2>1, ObjectsAside
<1>5. ASSUME OpenSession PROVE ObjectsInv'
  <2> DEFINE t == Min(FreeSids)
  <2>1. /\ call.step = "init" /\ UNCHANGED <<object, row>>
        /\ Answered([Goto("read") EXCEPT !.sid = t]) \/ Unanswered
    BY <1>5 DEF OpenSession
  <2> HIDE DEF t
  <2>2. CASE Answered([Goto("read") EXCEPT !.sid = t])
    <3>1. call'.step = "read" /\ spent' = spent
      BY <1>a, <1>b, <2>2, Going DEF Answered, Call
    <3>2. QED
      BY <1>a, <2>1, <3>1, ObjectsAside DEF AtEnd
  <2>3. CASE Unanswered
    BY <1>a, <1>d, <2>1, <2>3, ObjectsAside DEF Busy
  <2>4. QED
    BY <2>1, <2>2, <2>3
<1>6. ASSUME PutPart PROVE ObjectsInv'
  <2>1. call.step = "put" /\ Busy /\ UNCHANGED <<object, row>>
    BY <1>6 DEF PutPart, Busy
  <2>2. CASE Unanswered
    BY <1>a, <1>d, <2>1, <2>2, ObjectsAside
  <2>3. CASE Answered(Goto(IF AllRead THEN "complete" ELSE "read"))
    <3>1. call'.step \in {"complete", "read"} /\ spent' = spent
      BY <1>a, <1>b, <2>3, Going DEF Answered
    <3>2. QED
      BY <1>a, <2>1, <3>1, ObjectsAside DEF AtEnd
  <2>4. QED
    BY <1>6, <2>2, <2>3 DEF PutPart
<1>7. ASSUME CompleteUnknown \/ ReuploadUnknown PROVE ObjectsInv'
  <2>1. /\ call' = Goto("abort") \/ call' = Goto("idle")
        /\ UNCHANGED <<object, row, spent>>
    BY <1>7 DEF CompleteUnknown, ReuploadUnknown, Answered
  <2>2. ~AtEnd'
    BY <1>a, <1>b, <2>1, Going DEF AtEnd
  <2>3. QED
    BY <1>a, <2>1, <2>2, ObjectsAside
<1>8. ASSUME AbortSession PROVE ObjectsInv'
  <2>1. /\ call.step = "abort" /\ Busy /\ UNCHANGED <<object, row>>
        /\ Answered(AfterFailure) \/ Unanswered
    BY <1>8 DEF AbortSession, Busy
  <2>2. CASE Unanswered
    BY <1>a, <1>d, <2>1, <2>2, ObjectsAside
  <2>3. CASE Answered(AfterFailure)
    <3>1. ~AtEnd' /\ spent' = spent
      BY <2>1, <2>3, Fails DEF Answered, Failing, To, Afresh, FirstStep, AtEnd
    <3>2. QED
      BY <1>a, <2>1, <3>1, ObjectsAside
  <2>4. QED
    BY <2>1, <2>2, <2>3
<1>9. ASSUME CheckName \/ DropCopyUnknown PROVE ObjectsInv'
  <2>1. /\ AtEnd /\ UNCHANGED <<object, row, spent>>
        /\ \E s \in {"delete", "record"} :
             call' = Goto(s) /\ (s = "delete" => call.step = "check")
    BY <1>9 DEF CheckName, DropCopyUnknown, Answered, AtEnd
  <2>2. /\ call'.step \in {"delete", "record"} /\ call'.id = call.id
        /\ call'.kind = call.kind /\ (call'.step = "delete" => call.step = "check")
    BY <1>a, <1>b, <2>1, Going
  <2>3. QED
    BY <1>a, <2>1, <2>2, ObjectsAside
<1>e. ASSUME NEW bytes \in Contents, FreeIds # {}, object' = Created(bytes),
             UNCHANGED row
      PROVE  /\ \A i \in Id : object[i] # None => object'[i] # None
             /\ \A i \in Live : i \in Live'
             /\ FreshId \in Live' /\ object'[FreshId].name = FreshName
             /\ row # NoRow => FreshId # row.id
  <2>1. /\ FreshId \in Id /\ object[FreshId] = None
        /\ object'[FreshId] \in Object /\ object'[FreshId].name = FreshName
        /\ \A i \in Id : i # FreshId => object'[i] = object[i]
    BY <1>a, <1>e, Creating
  <2>2. row # NoRow => FreshId # row.id
    BY <2>1 DEF ObjectsInv, RowKnown
  <2>3. \A i \in Live : i \in Live'
    BY <1>c, <2>1 DEF Live
  <2>4. QED
    BY <2>1, <2>2, <2>3 DEF Live
<1>f. ASSUME NEW bytes \in Contents, row.id \in Live,
             object' = [object EXCEPT ![row.id].bytes = bytes]
      PROVE  /\ \A i \in Id : object[i] # None => object'[i] # None
             /\ \A i \in Live : i \in Live'
  <2>1. /\ row.id \in Id /\ object'[row.id] \in Object
        /\ \A i \in Id : i # row.id => object'[i] = object[i]
    BY <1>a, <1>f, Rewriting
  <2>2. QED
    BY <1>c, <2>1 DEF Live
<1>g. ASSUME Busy, ~AtEnd, Unanswered, UNCHANGED row,
             \A i \in Id : object[i] # None => object'[i] # None,
             \A i \in Live : i \in Live'
      PROVE  ObjectsInv'
  <2>1. ~AtEnd' /\ spent'.losses \in Nat /\ spent'.losses > spent.losses
    BY <1>d, <1>g
  <2>2. QED
    BY <1>a, <1>g, <2>1, ObjectsGrow
<1>h. ASSUME NEW bytes \in Contents, FreeIds # {}, object' = Created(bytes),
             UNCHANGED row, Answered(Stored), Busy
      PROVE  ObjectsInv'
  <2>1. /\ call'.id = FreshId /\ call'.step \in {"check", "record"}
        /\ call'.step = "check" => FreshName # 0
        /\ call'.kind = call.kind /\ spent' = spent
    BY <1>a, <1>h, Storing DEF Answered
  <2>2. call'.kind = "fresh" => row # NoRow
    BY <1>h, <2>1 DEF Shape, StepOfKind
  <2>3. QED
    BY <1>a, <1>e, <1>h, <2>1, <2>2, ObjectsGrow
<1>10. ASSUME Complete PROVE ObjectsInv'
  <2>1. /\ call.step = "complete" /\ session[call.sid] # Gone /\ UNCHANGED row
        /\ session[call.sid] = call.read /\ call.read \in Contents
        /\ Busy /\ ~AtEnd
    BY <1>10, <1>a, WholeRead DEF Complete, Shape, AllSent, Busy, AtEnd
  <2>2. CASE call.kind = "version"
    <3>1. /\ row.id \in Live
          /\ object' = [object EXCEPT ![row.id].bytes = call.read]
          /\ Answered([Goto("record") EXCEPT !.id = row.id]) \/ Unanswered
      BY <1>10, <2>1, <2>2 DEF Complete
    <3>2. CASE Answered([Goto("record") EXCEPT !.id = row.id])
      <4>1. /\ call'.step = "record" /\ call'.kind = "version"
            /\ call'.id = row.id /\ spent' = spent
        BY <1>a, <1>b, <1>c, <2>2, <3>1, <3>2, Naming DEF Answered
      <4>2. /\ \A i \in Id : object[i] # None => object'[i] # None
            /\ \A i \in Live : i \in Live'
        BY <1>f, <2>1, <3>1
      <4>3. /\ call'.id \in Live' /\ call'.step # "delete"
            /\ call'.step # "check" /\ call'.kind # "fresh"
        BY <3>1, <4>1, <4>2
      <4>4. spent'.losses >= spent.losses /\ spent'.losses \in Nat
        BY <1>a, <4>1
      <4>5. QED
        BY <1>a, <2>1, <4>2, <4>3, <4>4, ObjectsGrow
    <3>3. QED
      BY <1>f, <1>g, <2>1, <3>1, <3>2
  <2>3. CASE call.kind # "version"
    <3>1. /\ FreeIds # {} /\ object' = Created(call.read)
          /\ Answered(Stored) \/ Unanswered
      BY <1>10, <2>1, <2>3 DEF Complete
    <3>2. QED
      BY <1>e, <1>g, <1>h, <2>1, <3>1
  <2>4. QED
    BY <2>2, <2>3
<1>11. ASSUME Create PROVE ObjectsInv'
  <2>1. /\ call.step = "create" /\ FreeIds # {} /\ object' = Created(call.read)
        /\ Answered(Stored) \/ Unanswered
        /\ UNCHANGED row /\ call.read \in Contents /\ Busy /\ ~AtEnd
    BY <1>11, <1>a, WholeRead DEF Create, Shape, AllSent, Busy, AtEnd
  <2>2. QED
    BY <1>e, <1>g, <1>h, <2>1
<1>12. ASSUME Reupload PROVE ObjectsInv'
  <2>1. /\ call.step = "reupload" /\ row.id \in Live
        /\ object' = [object EXCEPT ![row.id].bytes = call.read]
        /\ Answered([Goto("record") EXCEPT !.id = row.id]) \/ Unanswered
        /\ UNCHANGED row /\ call.read \in Contents /\ Busy /\ ~AtEnd
    BY <1>12, <1>a, WholeRead DEF Reupload, Shape, AllSent, Busy, AtEnd
  <2>2. CASE Answered([Goto("record") EXCEPT !.id = row.id])
    <3>1. /\ call'.step = "record" /\ call'.kind = "reupload"
          /\ call'.id = row.id /\ spent' = spent
      BY <1>a, <1>b, <1>c, <2>1, <2>2, Naming DEF Answered, Shape, StepOfKind
    <3>2. /\ \A i \in Id : object[i] # None => object'[i] # None
          /\ \A i \in Live : i \in Live'
      BY <1>f, <2>1
    <3>3. /\ call'.id \in Live' /\ call'.step # "delete"
          /\ call'.step # "check" /\ call'.kind # "fresh"
      BY <2>1, <3>1, <3>2
    <3>4. spent'.losses >= spent.losses /\ spent'.losses \in Nat
      BY <1>a, <3>1
    <3>5. QED
      BY <1>a, <2>1, <3>2, <3>3, <3>4, ObjectsGrow
  <2>3. QED
    BY <1>f, <1>g, <2>1, <2>2
<1>13. ASSUME DropCopy PROVE ObjectsInv'
  <2>1. /\ call.step = "delete" /\ call.id \in Live /\ UNCHANGED row
        /\ object' = [object EXCEPT ![call.id] = Gone]
        /\ \/ \E i \in Own : Answered([Goto("record") EXCEPT !.id = i])
           \/ Unanswered
    BY <1>13 DEF DropCopy
  <2>2. /\ call.kind = "new" /\ row = NoRow /\ Busy
        /\ object[call.id].name # 0 /\ call.id \in Id
    BY <1>c, <2>1 DEF Shape, StepOfKind, ObjectsInv, Renamed, Busy
  <2>3. /\ \A i \in Id : object[i] # None => object'[i] # None
        /\ \A i \in Live : i # call.id => i \in Live'
    BY <1>a, <2>1, <2>2 DEF Live
  <2>4. RowKnown'
    BY <2>1, <2>2 DEF RowKnown
  <2>5. CASE \E i \in Own : Answered([Goto("record") EXCEPT !.id = i])
    <3>1. PICK i \in Own : Answered([Goto("record") EXCEPT !.id = i])
      BY <2>5
    <3>2. i \in Live /\ i # call.id /\ i \in Id
      BY <1>c, <2>2, <3>1 DEF Own, Named
    <3>3. call'.step = "record" /\ call'.id = i /\ call'.kind = "new"
      BY <1>a, <1>b, <2>2, <3>1, <3>2, Naming DEF Answered
    <3>4. i \in Live' /\ object'[i] # None
      BY <2>3, <3>2 DEF Live
    <3>5. CallKnown'
      BY <3>3, <3>4 DEF CallKnown
    <3>6. Renamed' /\ FreshIsOther'
      BY <3>3 DEF Renamed, FreshIsOther
    <3>7. QED
      BY <2>4, <3>5, <3>6 DEF ObjectsInv
  <2>6. CASE Unanswered
    <3>1. /\ spent'.losses \in Nat /\ spent'.losses > spent.losses
          /\ AtEnd' => /\ call'.id = call.id /\ call'.kind = "new"
                       /\ call'.step \in {"delete", "record"}
      BY <1>d, <2>1, <2>2, <2>6
    <3>2. object'[call.id] = Gone /\ call.id \notin Live'
      BY <1>a, <2>1, <2>2 DEF Live
    <3>3. spent'.losses > 0
      BY <1>a, <3>1
    <3>4. CallKnown'
      BY <3>1, <3>2, <3>3 DEF CallKnown, AtEnd
    <3>5. Renamed' /\ FreshIsOther'
      BY <3>1, <3>2 DEF Renamed, FreshIsOther, AtEnd
    <3>6. QED
      BY <2>4, <3>4, <3>5 DEF ObjectsInv
  <2>7. QED
    BY <2>1, <2>5, <2>6
<1>14. ASSUME Record PROVE ObjectsInv'
  <2>1. /\ AtEnd /\ UNCHANGED <<object, spent>> /\ row' = RowFor
        /\ call' = Goto("idle")
    BY <1>14 DEF Record, AtEnd
  <2>2. row'.id = call.id /\ ~AtEnd' /\ Live' = Live
    BY <1>a, <1>b, <2>1, Going DEF RowFor, AtEnd, Live
  <2>3. RowKnown'
    BY <2>1, <2>2, <1>a DEF RowKnown, ObjectsInv, CallKnown
  <2>4. QED
    BY <2>2, <2>3 DEF ObjectsInv, CallKnown, Renamed, FreshIsOther, AtEnd
<1>15. ASSUME Swap PROVE ObjectsInv'
  <2>1. /\ call.step = "record" /\ call.kind = "fresh" /\ AtEnd
        /\ call' = Goto("idle") /\ spent' = spent
    BY <1>15 DEF Swap, AtEnd
  <2>2. ~AtEnd'
    BY <1>a, <1>b, <2>1, Going DEF AtEnd
  <2>3. /\ call.id \in Live /\ call.id # row.id /\ call.id \in Id
        /\ row # NoRow /\ row.id \in Id
    BY <1>a, <1>c, <2>1
       DEF ObjectsInv, CallKnown, FreshIsOther, Shape, StepOfKind,
       Busy
  <2>4. RowKnown'
    <3>1. CASE row.id \in Live
      <4>1. object' = [object EXCEPT ![row.id] = Gone,
                                     ![call.id].name = object[row.id].name]
            /\ row' = RowFor
        BY <1>15, <3>1 DEF Swap
      <4> DEFINE new == [object[call.id] EXCEPT !.name = object[row.id].name]
      <4>2. object[call.id] \in Object /\ object[row.id] \in Object
        BY <1>a, <2>3, <3>1 DEF Live
      <4>3. new \in Object
        BY <4>2 DEF Object
      <4>4. object' = [object EXCEPT ![row.id] = Gone, ![call.id] = new]
        BY <1>a, <2>3, <4>1
      <4> HIDE DEF new
      <4>5. object'[call.id] \in Object
        BY <1>a, <2>3, <4>3, <4>4
      <4>6. row'.id = call.id
        BY <4>1 DEF RowFor
      <4>7. QED
        BY <2>3, <4>5, <4>6 DEF RowKnown, Live
    <3>2. CASE row.id \notin Live
      <4>1. object' = [object EXCEPT ![call.id] = Gone] /\ row' = row
        BY <1>15, <3>2 DEF Swap
      <4>2. object'[row.id] = object[row.id]
        BY <1>a, <2>3, <4>1
      <4>3. QED
        BY <2>1, <2>3, <3>2, <4>1, <4>2 DEF RowKnown, ObjectsInv
    <3>3. QED
      BY <3>1, <3>2
  <2>5. QED
    BY <2>2, <2>4 DEF ObjectsInv, CallKnown, Renamed, FreshIsOther, AtEnd
<1>16. ASSUME Pull PROVE ObjectsInv'
  <2>1. call.step = "idle" /\ UNCHANGED <<object, call, spent>>
    BY <1>16 DEF Pull
  <2>2. ~AtEnd' /\ Live' = Live
    BY <2>1 DEF AtEnd, Live
  <2>3. row' = row \/ row' = NoRow \/ \E i \in Own : row'.id = i
    <3>1. CASE Own = {}
      BY <1>16, <3>1 DEF Pull
    <3>2. CASE Own # {}
      <4>1. PICK i \in Own : row' = Pulled(i).row
        BY <1>16, <3>2 DEF Pull
      <4>2. Pulled(i).row \in {row, NoRow, [id |-> i, hash |-> object[i].bytes]}
        BY DEF Pulled
      <4>3. QED
        BY <4>1, <4>2
    <3>3. QED
      BY <3>1, <3>2
  <2>4. RowKnown'
    BY <2>1, <2>2, <2>3 DEF RowKnown, ObjectsInv, Own, Named, Live
  <2>5. QED
    BY <2>2, <2>4 DEF ObjectsInv, CallKnown, Renamed, FreshIsOther, AtEnd
<1>17. CASE Edit \/ UNCHANGED vars
  <2>1. UNCHANGED <<object, row, call>> /\ spent'.losses = spent.losses
    BY <1>17, <1>a DEF Edit, vars
  <2>2. QED
    BY <1>a, <2>1, ObjectsAside DEF AtEnd
<1>18. QED
  BY <1>1, <1>2, <1>3, <1>4, <1>5, <1>6, <1>7, <1>8, <1>9, <1>10, <1>11, <1>12,
     <1>13, <1>14, <1>15, <1>16, <1>17 DEF Next, Client
-----------------------------------------------------------------------------
(* Sessions.                                                                *)

(* A session that is over stays over when nothing is sent on it.            *)
LEMMA SessionsAside ==
  ASSUME Shape, SessionsInv, ~Sending, call'.sid = call.sid, call'.step # "abort",
         spent.losses \in Nat, spent'.losses \in Nat, spent'.losses >= spent.losses,
         \A s \in Sid : session[s] = Gone => session'[s] = Gone
  PROVE  SessionsInv'
<1> USE UploadAssumption
<1>1. call.sid \in Sid \cup {None}
  BY DEF Shape, Typed, Call
<1>2. AbortPaid'
  BY DEF AbortPaid
<1>3. ASSUME call.sid # None PROVE session'[call.sid] = Gone \/ spent'.losses > Attempts
  <2>1. session[call.sid] = Gone \/ spent.losses > Attempts
    BY <1>3 DEF SessionsInv, SessionOver
  <2>2. Attempts \in Int /\ call.sid \in Sid
    BY <1>1, <1>3
  <2>3. spent.losses > Attempts => spent'.losses > Attempts
    BY <2>2
  <2>4. session[call.sid] = Gone => session'[call.sid] = Gone
    BY <2>2
  <2>5. QED
    BY <2>1, <2>3, <2>4
<1>4. SessionOver'
  BY <1>3 DEF SessionOver
<1>5. QED
  BY <1>2, <1>4 DEF SessionsInv

(* A lost request leaves a session to be aborted, or takes one more try of  *)
(* the abort.                                                               *)
LEMMA SessionsLost ==
  ASSUME Shape, SessionsInv, Busy, call.step # "read", Unanswered,
         call.step = "put" \/ \A s \in Sid : session[s] = Gone => session'[s] = Gone
  PROVE  SessionsInv'
<1> USE UploadAssumption
<1>1. /\ call \in Call /\ spent.losses \in Nat /\ call.attempt \in 1..Attempts
      /\ call.sid \in Sid \cup {None} /\ "abort" \in Retried
  BY DEF Shape, Typed, Call, Retried
<1>2. /\ Losing /\ spent'.losses = spent.losses + 1 /\ spent'.losses \in Nat
      /\ spent'.losses >= spent.losses
  BY <1>1, Loses
<1>3. CASE call.step \in {"put", "complete"}
  <2>1. \/ call'.step = call.step
        \/ call'.step = "abort" /\ call'.attempt = 1
    BY <1>2, <1>3 DEF Losing, GivingUp, Again, To
  <2>2. QED
    BY <1>1, <1>2, <1>3, <2>1 DEF SessionsInv, SessionOver, AbortPaid, Sending
<1>4. CASE call.step = "abort"
  <2>1. session[call.sid] = Gone => session'[call.sid] = Gone
    BY <1>4 DEF Shape, SessionTaken, Sending
  <2>2. CASE call.attempt < Attempts
    <3>1. call' = [call EXCEPT !.attempt = @ + 1]
      BY <1>1, <1>4, <2>2 DEF Unanswered
    <3>2. call'.step = "abort" /\ call'.attempt = call.attempt + 1 /\ call'.sid = call.sid
      BY <1>1, <1>4, <3>1 DEF Call
    <3>3. QED
      BY <1>1, <1>2, <1>4, <2>1, <3>2
         DEF SessionsInv, SessionOver, AbortPaid, Sending
  <2>3. CASE ~(call.attempt < Attempts)
    <3>1. call' = AfterGivingUp
      BY <2>3 DEF Unanswered
    <3>2. call'.step # "abort" /\ call'.sid = call.sid
      BY <1>4, <3>1, GivesUp DEF GivingUp, Failing, To, Keeps, Afresh, FirstStep
    <3>3. session'[call.sid] = Gone \/ spent'.losses > Attempts
      BY <1>1, <1>2, <1>4, <2>1, <2>3 DEF SessionsInv, AbortPaid
    <3>4. QED
      BY <3>2, <3>3 DEF SessionsInv, SessionOver, AbortPaid
  <2>4. QED
    BY <2>2, <2>3
<1>5. CASE call.step \notin {"put", "complete", "abort"}
  <2>1. call'.step # "abort" /\ call'.sid = call.sid
    BY <1>2, <1>5
       DEF Losing, GivingUp, Failing, Again, To, Keeps, Afresh, FirstStep
  <2>2. QED
    BY <1>1, <1>2, <1>5, <2>1, SessionsAside DEF Sending
<1>6. QED
  BY <1>3, <1>4, <1>5

(* Every step keeps what is known of the sessions.                          *)
LEMMA SessionsKept ==
  ASSUME Shape, ObjectsInv, SessionsInv, [Next]_vars
  PROVE  SessionsInv'
<1> USE UploadAssumption
<1>a. /\ call \in Call /\ spent.losses \in Nat /\ call.kind \in Kind
      /\ session \in [Sid -> {None, Gone} \cup Bytes]
      /\ call.sid \in Sid \cup {None}
  BY DEF Shape, Typed, Call
<1>b. {"idle", "read", "abort", "record", "delete", "complete"} \subseteq Steps
  BY DEF Steps, Retried
<1>c. ASSUME session'[call.sid] = Gone, call'.sid = call.sid
      PROVE  SessionsInv'
  BY <1>c DEF SessionsInv, SessionOver, AbortPaid
<1>d. ASSUME Sending', call'.step # "abort" PROVE SessionsInv'
  BY <1>d DEF SessionsInv, SessionOver, AbortPaid
<1>e. ASSUME ~Sending, UNCHANGED <<session, spent>>, NEW t \in Steps,
             t # "abort", call'.step = t, call'.sid = call.sid
      PROVE  SessionsInv'
  BY <1>a, <1>e, SessionsAside
<1>1. ASSUME Begin PROVE SessionsInv'
  <2>1. PICK k \in Kind : call' = Start(k, local)
    BY <1>1 DEF Begin, Kind
  <2>2. call'.step \in {"init", "read"} /\ call'.sid = call.sid
    BY <1>a, <2>1, Starting DEF FirstStep, Shape, Typed
  <2>3. ~Sending /\ UNCHANGED <<session, spent>>
    BY <1>1 DEF Begin, Sending
  <2>4. QED
    BY <1>a, <2>2, <2>3, SessionsAside
<1>2. ASSUME NeverArrives PROVE SessionsInv'
  BY <1>2, SessionsLost DEF NeverArrives, Busy, Retried
<1>3. ASSUME Refused PROVE SessionsInv'
  <2>1. /\ call.step \in {"init", "put", "complete", "create", "reupload"}
        /\ Busy /\ call' = AfterGivingUp /\ UNCHANGED session
        /\ spent'.losses = spent.losses + 1
    BY <1>3 DEF Refused, Busy, Lose, Shape, Typed
  <2>2. call' \in Call /\ GivingUp
    BY <2>1, GivesUp
  <2>3. CASE call.step \in {"put", "complete"}
    BY <1>a, <2>1, <2>2, <2>3
       DEF GivingUp, To, SessionsInv, SessionOver, AbortPaid, Sending
  <2>4. CASE call.step \notin {"put", "complete"}
    <3>1. call'.step # "abort" /\ call'.sid = call.sid /\ ~Sending
      BY <2>1, <2>2, <2>4
         DEF GivingUp, Failing, To, Keeps, Afresh, FirstStep, Sending
    <3>2. QED
      BY <1>a, <2>1, <3>1, SessionsAside
  <2>5. QED
    BY <2>3, <2>4
<1>4. ASSUME ReadPart PROVE SessionsInv'
  <2>1. /\ call.step = "read" /\ UNCHANGED <<size, session, spent>>
        /\ call'.sid = call.sid
        /\ call'.step \in {"put", "reupload", "read", "create"}
        /\ InSession(call.kind) => call'.step = "put"
    BY <1>4, <1>a DEF ReadPart, Call, InSession
  <2>2. CASE InSession(call.kind)
    BY <1>d, <2>1, <2>2 DEF Sending
  <2>3. CASE ~InSession(call.kind)
    BY <1>a, <2>1, <2>3, SessionsAside DEF Sending
  <2>4. QED
    BY <2>2, <2>3
<1>5. ASSUME OpenSession PROVE SessionsInv'
  <2> DEFINE t == Min(FreeSids)
  <2>1. /\ call.step = "init" /\ Busy /\ InSession(call.kind)
        /\ session' = [session EXCEPT ![t] = Unread] /\ UNCHANGED size
        /\ t \in Sid /\ session[t] = None
        /\ Answered([Goto("read") EXCEPT !.sid = t]) \/ Unanswered
    BY <1>5, FreshIds DEF OpenSession, Busy, Shape, StepOfKind
  <2> HIDE DEF t
  <2>2. CASE Answered([Goto("read") EXCEPT !.sid = t])
    <3>1. call'.step = "read" /\ call'.kind = call.kind
      BY <1>a, <1>b, <2>2, Going DEF Answered, Call
    <3>2. QED
      BY <1>d, <2>1, <3>1 DEF Sending, InSession
  <2>3. CASE Unanswered
    <3>1. \A s \in Sid : session[s] = Gone => session'[s] = Gone
      BY <1>a, <2>1
    <3>2. QED
      BY <2>1, <2>3, <3>1, SessionsLost
  <2>4. QED
    BY <2>1, <2>2, <2>3
<1>6. ASSUME PutPart PROVE SessionsInv'
  <2>1. call.step = "put" /\ Busy /\ UNCHANGED size /\ InSession(call.kind)
    BY <1>6 DEF PutPart, Busy, Shape, StepOfKind
  <2>2. CASE Unanswered
    BY <2>1, <2>2, SessionsLost
  <2>3. CASE Answered(Goto(IF AllRead THEN "complete" ELSE "read"))
    <3>1. call'.step \in {"complete", "read"} /\ call'.kind = call.kind
      BY <1>a, <1>b, <2>3, Going DEF Answered
    <3>2. QED
      BY <1>d, <2>1, <3>1 DEF Sending, InSession
  <2>4. QED
    BY <1>6, <2>2, <2>3 DEF PutPart
<1>7. ASSUME Complete PROVE SessionsInv'
  <2>1. /\ call.step = "complete" /\ Busy
        /\ session' = [session EXCEPT ![call.sid] = Gone]
    BY <1>7 DEF Complete, Busy
  <2>2. session'[call.sid] = Gone
    BY <1>a, <2>1 DEF Shape, SessionTaken, Sending
  <2>3. CASE Unanswered
    <3>1. \A s \in Sid : session[s] = Gone => session'[s] = Gone
      BY <1>a, <2>1
    <3>2. QED
      BY <2>1, <2>3, <3>1, SessionsLost
  <2>4. CASE call.kind # "version" /\ FreeIds # {} /\ Answered(Stored)
    BY <1>a, <1>c, <2>2, <2>4, Storing DEF Answered
  <2>5. CASE row.id \in Live /\ Answered([Goto("record") EXCEPT !.id = row.id])
    <3>1. call'.sid = call.sid
      BY <1>a, <1>b, <2>5, Naming DEF Answered, Live
    <3>2. QED
      BY <1>c, <2>2, <3>1
  <2>6. QED
    BY <1>7, <2>3, <2>4, <2>5 DEF Complete
<1>8. ASSUME CompleteUnknown PROVE SessionsInv'
  <2>1. /\ call.step = "complete" /\ UNCHANGED <<session, spent>>
        /\ session[call.sid] = Gone \/ (row # NoRow /\ row.id \notin Live)
        /\ call' = Goto("abort")
    BY <1>8 DEF CompleteUnknown, Answered, Shape, StepOfKind, Busy
  <2>2. call'.step = "abort" /\ call'.attempt = 1 /\ call'.sid = call.sid
    BY <1>a, <1>b, <2>1, Going
  <2>3. session[call.sid] = Gone \/ spent.losses >= 1
    BY <1>a, <2>1 DEF ObjectsInv, RowKnown
  <2>4. QED
    BY <2>1, <2>2, <2>3 DEF SessionsInv, SessionOver, AbortPaid, Sending
<1>9. ASSUME AbortSession PROVE SessionsInv'
  <2>1. /\ call.step = "abort" /\ Busy
        /\ session' = [session EXCEPT ![call.sid] = Gone]
        /\ Answered(AfterFailure) \/ Unanswered
    BY <1>9 DEF AbortSession, Busy
  <2>2. session'[call.sid] = Gone
    BY <1>a, <2>1 DEF Shape, SessionTaken, Sending
  <2>3. CASE Answered(AfterFailure)
    <3>1. call'.sid = call.sid
      BY <2>1, <2>3, Fails DEF Answered, Failing, To, Keeps, Afresh
    <3>2. QED
      BY <1>c, <2>2, <3>1
  <2>4. CASE Unanswered
    <3>1. \A s \in Sid : session[s] = Gone => session'[s] = Gone
      BY <1>a, <2>1
    <3>2. QED
      BY <2>1, <2>4, <3>1, SessionsLost
  <2>5. QED
    BY <2>1, <2>3, <2>4
<1>10. ASSUME Create \/ Reupload \/ DropCopy PROVE SessionsInv'
  <2>1. /\ call.step \in {"create", "reupload", "delete"} /\ Busy /\ ~Sending
        /\ UNCHANGED session
    BY <1>10 DEF Create, Reupload, DropCopy, Busy, Sending
  <2>2. CASE Unanswered
    BY <2>1, <2>2, SessionsLost
  <2>3. CASE FreeIds # {} /\ Answered(Stored)
    <3>1. call'.step \in {"check", "record"} /\ call'.sid = call.sid /\ spent' = spent
      BY <1>a, <2>3, Storing DEF Answered
    <3>2. QED
      BY <1>a, <2>1, <3>1, SessionsAside
  <2>4. CASE \E i \in Live : Answered([Goto("record") EXCEPT !.id = i])
    <3>1. PICK i \in Id : Answered([Goto("record") EXCEPT !.id = i])
      BY <2>4 DEF Live
    <3>2. call'.step = "record" /\ call'.sid = call.sid /\ spent' = spent
      BY <1>a, <1>b, <3>1, Naming DEF Answered
    <3>3. QED
      BY <1>a, <2>1, <3>2, SessionsAside
  <2>5. QED
    BY <1>10, <2>2, <2>3, <2>4 DEF Create, Reupload, DropCopy, Own, Named
<1>11. ASSUME ReuploadUnknown \/ CheckName \/ DropCopyUnknown \/ Record \/ Swap
       PROVE  SessionsInv'
  <2>1. /\ ~Sending /\ UNCHANGED <<session, spent>>
        /\ \E s \in {"idle", "delete", "record"} : call' = Goto(s)
    BY <1>11 DEF ReuploadUnknown, CheckName, DropCopyUnknown, Record, Swap,
       Answered, Sending
  <2>2. call'.step \in {"idle", "delete", "record"} /\ call'.sid = call.sid
    BY <1>a, <1>b, <2>1, Going
  <2>3. QED
    BY <1>a, <2>1, <2>2, SessionsAside
<1>12. CASE Pull \/ Edit \/ UNCHANGED vars
  <2>1. UNCHANGED <<size, session, call>> /\ spent'.losses = spent.losses
    BY <1>12 DEF Pull, Edit, vars, Shape, Typed
  <2>2. QED
    BY <2>1 DEF SessionsInv, SessionOver, AbortPaid, Sending, InSession
<1>13. QED
  BY <1>1, <1>2, <1>3, <1>4, <1>5, <1>6, <1>7, <1>8, <1>9, <1>10, <1>11, <1>12
     DEF Next, Client
-----------------------------------------------------------------------------
(* Contents.                                                                *)

(* No content is what stands for none.                                      *)
LEMMA ContentIsOne == None \notin Contents /\ Gone \notin Contents
BY OverAssumption DEF Contents, Bytes

(* What the user writes next is neither in the row nor in the call.         *)
LEMMA NewerIsOther ==
  ASSUME Shape, NothingNewer, spent.edits < Edits
  PROVE  Whole(spent.edits + 1) # row.hash /\ Whole(spent.edits + 1) # call.hash
<1> DEFINE w == Whole(spent.edits + 1)
<1>1. /\ spent.edits \in Nat /\ spent.edits + 1 \in Version /\ 1 \in Part
  BY UploadAssumption DEF Shape, Typed, Part, Version
<1>2. w[1] = spent.edits + 1 /\ w \in Contents
  BY <1>1 DEF Whole, Contents
<1>3. \A c \in [Part -> Known] : c[1] # spent.edits + 1
  BY <1>1 DEF Known
<1>4. w # None
  BY <1>2, ContentIsOne
<1>5. /\ row.hash = None \/ row.hash \in [Part -> Known]
      /\ call.hash = None \/ call.hash \in [Part -> Known]
  BY DEF NothingNewer, NoRow
<1> HIDE DEF w
<1>6. w # row.hash /\ w # call.hash
  BY <1>2, <1>3, <1>4, <1>5
<1>7. QED
  BY <1>6 DEF w

(* A file that was read whole and not rewritten since was read as it is.    *)
LEMMA ReadWhole ==
  ASSUME Shape, NothingNewer, ReadIsLocal, Busy, AllRead
  PROVE  /\ call.read \in Contents /\ call.read \in [Part -> Known]
         /\ local = call.hash => call.read = local
<1>1. call.read \in Contents /\ local \in Contents
  BY WholeRead DEF Shape, Typed
<1>2. call.read \in [Part -> Known]
  BY DEF NothingNewer, AllRead
<1>3. ASSUME local = call.hash PROVE call.read = local
  <2>1. \A k \in Part : call.read[k] = local[k]
    BY <1>3 DEF ReadIsLocal, AllRead
  <2>2. QED
    BY <1>1, <2>1 DEF Contents
<1>4. QED
  BY <1>1, <1>2, <1>3

(* A step that changes neither the file nor the row nor an object, and goes *)
(* to the end of a call only from the end of it.                            *)
LEMMA ContentsAside ==
  ASSUME Shape, ContentsInv, Busy, UNCHANGED <<local, row, object>>,
         spent'.edits = spent.edits, call'.hash = call.hash,
         call'.read \in {call.read, Unread},
         AtEnd' =>
           /\ AtEnd /\ call'.id = call.id /\ call'.kind = call.kind
           /\ \/ call'.step = call.step
              \/ call.step = "delete" /\ call'.step = "record" /\ call.kind = "new"
  PROVE  ContentsInv'
<1> USE DEF ContentsInv
<1>1. Live' = Live /\ Own' = Own /\ Known' = Known
  BY DEF Live, Own, Named, Known
<1>2. Unread \in [Part -> {None}]
  BY DEF Unread
<1>3. NothingNewer'
  BY <1>1, <1>2 DEF NothingNewer
<1>4. Changed'
  BY DEF Changed
<1>5. ReadIsLocal'
  BY DEF ReadIsLocal, Unread
<1>6. OnServer'
  <2>1. call'.step = "delete" => call.step = "delete"
    BY DEF AtEnd
  <2>2. (\E i \in Own : object[i].bytes = call.hash)
           => \E i \in Live : object[i].bytes = call.hash
    BY DEF Own, Named
  <2>3. QED
    BY <1>1, <2>1 DEF OnServer, AtEnd, Own, Named
<1>7. AgreedIsShared'
  BY DEF AgreedIsShared, Changed
<1>8. QED
  BY <1>3, <1>4, <1>5, <1>6, <1>7

(* A step that puts what was read on the server as the object j, and goes   *)
(* on with it.                                                              *)
LEMMA ContentsGrow ==
  ASSUME Shape, ContentsInv, Busy, ~AtEnd, UNCHANGED <<local, row>>, AllRead,
         spent'.edits = spent.edits, call'.hash = call.hash,
         call'.read \in {call.read, Unread},
         NEW j \in Live', object'[j].bytes = call.read,
         \A i \in Live' : i = j \/ (i \in Live /\ object'[i] = object[i]),
         AtEnd' => call'.id = j /\ call'.step # "delete"
  PROVE  ContentsInv'
<1> USE DEF ContentsInv
<1>1. /\ call.read \in [Part -> Known] /\ Known' = Known
      /\ local = call.hash => call.read = local
  BY ReadWhole DEF Known
<1>2. Unread \in [Part -> {None}]
  BY DEF Unread
<1>3. NothingNewer'
  BY <1>1, <1>2 DEF NothingNewer
<1>4. Changed'
  BY DEF Changed
<1>5. ReadIsLocal'
  BY DEF ReadIsLocal, Unread
<1>6. OnServer'
  BY <1>1 DEF OnServer, AtEnd
<1>7. AgreedIsShared'
  BY DEF AgreedIsShared, Changed
<1>8. QED
  BY <1>3, <1>4, <1>5, <1>6, <1>7

(* Every step keeps what is known of the contents.                          *)
LEMMA ContentsKept ==
  ASSUME Shape, Shape', ObjectsInv, ContentsInv, [Next]_vars
  PROVE  ContentsInv'
<1> USE UploadAssumption
<1>a. /\ local \in Contents /\ row \in {NoRow} \cup [id : Id, hash : Contents]
      /\ object \in [Id -> {None, Gone} \cup Object]
      /\ call \in Call /\ call.kind \in Kind /\ call.read \in Bytes
      /\ spent \in [losses : 0..Losses, edits : 0..Edits]
      /\ spent.edits \in Nat
  BY DEF Shape, Typed, Call
<1>b. {"idle", "read", "abort", "record", "delete", "complete"} \subseteq Steps
  BY DEF Steps, Retried
<1>c. /\ NothingNewer /\ Changed /\ ReadIsLocal /\ OnServer /\ AgreedIsShared
      /\ Live \subseteq Id /\ Own \subseteq Live
  BY DEF ContentsInv, Live, Own, Named
<1>d. ASSUME Busy, Unanswered
      PROVE  /\ call'.hash = call.hash /\ call'.read \in {call.read, Unread}
             /\ spent'.edits = spent.edits
             /\ AtEnd' =>
                  /\ AtEnd /\ call'.id = call.id /\ call'.kind = call.kind
                  /\ \/ call'.step = call.step
                     \/ /\ call.step = "delete" /\ call'.step = "record"
                        /\ call.kind = "new"
  <2>1. Losing /\ spent'.edits = spent.edits
    BY <1>d, Loses
  <2>2. call.step = "delete" => call.kind = "new"
    BY DEF Shape, StepOfKind
  <2>3. QED
    BY <2>1, <2>2 DEF Losing, GivingUp, Failing, Again, To, Keeps, Afresh,
       FirstStep, AtEnd
<1>e. ASSUME NEW s \in Steps, s \notin {"check", "delete", "record"}, Busy,
             call' = Goto(s), UNCHANGED <<local, row, object, spent>>
      PROVE  ContentsInv'
  <2>1. call'.step = s /\ call'.hash = call.hash /\ call'.read = call.read
    BY <1>a, <1>e, Going
  <2>2. QED
    BY <1>e, <2>1, ContentsAside DEF AtEnd
<1>f. ASSUME Busy, Unanswered, UNCHANGED <<local, row, object>>
      PROVE  ContentsInv'
  BY <1>d, <1>f, ContentsAside
<1>1. ASSUME Begin PROVE ContentsInv'
  <2>1. PICK k \in Kind : call' = Start(k, local)
    BY <1>1 DEF Begin, Kind
  <2>2. /\ call'.step \in {"init", "read"} /\ call'.hash = local
        /\ call'.read = Unread
    BY <1>a, <2>1, Starting DEF FirstStep
  <2>3. row.hash # local /\ UNCHANGED <<local, row, object, spent>>
    BY <1>1 DEF Begin
  <2>4. Live' = Live /\ Known' = Known /\ Unread \in [Part -> {None}]
    BY <2>3 DEF Live, Known, Unread
  <2>5. NothingNewer'
    BY <1>c, <2>2, <2>3, <2>4 DEF NothingNewer
  <2>6. ReadIsLocal'
    BY <2>2 DEF ReadIsLocal, Unread
  <2>7. QED
    BY <2>2, <2>3, <2>5, <2>6 DEF ContentsInv, Changed, OnServer, AgreedIsShared
<1>2. ASSUME NeverArrives PROVE ContentsInv'
  BY <1>2, <1>f DEF NeverArrives, Busy, Retried
<1>3. ASSUME Refused PROVE ContentsInv'
  <2>1. /\ Busy /\ ~AtEnd /\ call' = AfterGivingUp /\ UNCHANGED <<local, row, object>>
        /\ spent'.edits = spent.edits
    BY <1>3, <1>a DEF Refused, Busy, AtEnd, Lose
  <2>2. /\ ~AtEnd' /\ call'.hash = call.hash
        /\ call'.read \in {call.read, Unread}
    BY <2>1, GivesUp DEF AtEnd, GivingUp, Failing, To, Keeps, Afresh, FirstStep
  <2>3. QED
    BY <2>1, <2>2, ContentsAside
<1>4. ASSUME ReadPart PROVE ContentsInv'
  <2> DEFINE got == [call.read EXCEPT ![NextPart] = local[NextPart]]
  <2>1. /\ call.step = "read" /\ UNCHANGED <<local, row, object, spent>>
        /\ call'.read = got /\ call'.hash = call.hash
        /\ call'.step \in {"put", "reupload", "read", "create"}
    BY <1>4, <1>a DEF ReadPart, Call
  <2>2. /\ got \in [Part -> Version \cup {None}]
        /\ \A k \in Part : got[k] \in {call.read[k], local[k]}
    BY <1>a DEF Bytes, Contents
  <2>3. Live' = Live /\ Known' = Known
    BY <2>1 DEF Live, Known
  <2> HIDE DEF got
  <2>4. got \in [Part -> Known \cup {None}]
    BY <1>c, <2>2 DEF NothingNewer
  <2>5. NothingNewer'
    BY <1>c, <2>1, <2>3, <2>4 DEF NothingNewer
  <2>6. ReadIsLocal'
    BY <1>c, <2>1, <2>2 DEF ReadIsLocal, Busy
  <2>7. Changed'
    BY <1>c, <2>1 DEF Changed, Busy
  <2>8. QED
    BY <2>1, <2>5, <2>6, <2>7 DEF ContentsInv, OnServer, AgreedIsShared
<1>5. ASSUME OpenSession PROVE ContentsInv'
  <2> DEFINE t == Min(FreeSids)
  <2>1. /\ Busy /\ UNCHANGED <<local, row, object>>
        /\ Answered([Goto("read") EXCEPT !.sid = t]) \/ Unanswered
    BY <1>5 DEF OpenSession, Busy
  <2> HIDE DEF t
  <2>2. CASE Answered([Goto("read") EXCEPT !.sid = t])
    <3>1. /\ call'.step = "read" /\ call'.hash = call.hash
          /\ call'.read = call.read /\ spent' = spent
      BY <1>a, <1>b, <2>2, Going DEF Answered, Call
    <3>2. QED
      BY <2>1, <3>1, ContentsAside DEF AtEnd
  <2>3. QED
    BY <1>f, <2>1, <2>2
<1>6. ASSUME PutPart PROVE ContentsInv'
  <2>1. /\ Busy /\ UNCHANGED <<local, row, object>>
        /\ Answered(Goto(IF AllRead THEN "complete" ELSE "read")) \/ Unanswered
    BY <1>6 DEF PutPart, Busy
  <2>2. QED
    BY <1>b, <1>e, <1>f, <2>1 DEF Answered
<1>7. ASSUME CompleteUnknown \/ ReuploadUnknown PROVE ContentsInv'
  <2>1. /\ Busy /\ UNCHANGED <<local, row, object, spent>>
        /\ call' = Goto("abort") \/ call' = Goto("idle")
    BY <1>7 DEF CompleteUnknown, ReuploadUnknown, Answered, Busy
  <2>2. QED
    BY <1>b, <1>e, <2>1
<1>8. ASSUME AbortSession PROVE ContentsInv'
  <2>1. /\ Busy /\ UNCHANGED <<local, row, object>>
        /\ Answered(AfterFailure) \/ Unanswered
    BY <1>8 DEF AbortSession, Busy
  <2>2. CASE Answered(AfterFailure)
    <3>1. /\ ~AtEnd' /\ call'.hash = call.hash /\ spent' = spent
          /\ call'.read \in {call.read, Unread}
      BY <2>1, <2>2, Fails
         DEF Answered, Failing, To, Keeps, Afresh, FirstStep, AtEnd
    <3>2. QED
      BY <2>1, <3>1, ContentsAside
  <2>3. QED
    BY <1>f, <2>1, <2>2
<1>9. ASSUME DropCopyUnknown PROVE ContentsInv'
  <2>1. /\ Busy /\ AtEnd /\ call.step = "delete" /\ call.kind = "new"
        /\ call' = Goto("record") /\ UNCHANGED <<local, row, object, spent>>
    BY <1>9 DEF DropCopyUnknown, Answered, Busy, AtEnd, Shape, StepOfKind
  <2>2. /\ call'.step = "record" /\ call'.id = call.id /\ call'.kind = call.kind
        /\ call'.hash = call.hash /\ call'.read = call.read
    BY <1>a, <1>b, <2>1, Going
  <2>3. QED
    BY <2>1, <2>2, ContentsAside
<1>10. ASSUME CheckName PROVE ContentsInv'
  <2>1. /\ call.step = "check" /\ UNCHANGED <<local, row, object, spent>>
        /\ call' = Goto(IF Adoptable THEN "delete" ELSE "record")
        /\ Busy /\ AtEnd
    BY <1>10 DEF CheckName, Answered, Busy, AtEnd
  <2>2. call.kind = "new" /\ call.id \in Live
    BY <2>1 DEF Shape, StepOfKind, ObjectsInv, CallKnown
  <2>3. /\ call'.step = IF Adoptable THEN "delete" ELSE "record"
        /\ call'.id = call.id /\ call'.kind = "new"
        /\ call'.hash = call.hash /\ call'.read = call.read
    BY <1>a, <1>b, <2>1, <2>2, Going
  <2>4. Live' = Live /\ Own' = Own /\ Known' = Known
    BY <2>1 DEF Live, Own, Named, Known
  <2>5. NothingNewer' /\ Changed' /\ ReadIsLocal' /\ AgreedIsShared'
    BY <1>c, <2>1, <2>3, <2>4
       DEF NothingNewer, Changed, ReadIsLocal, AgreedIsShared, Busy
  <2>6. OnServer'
    BY <1>c, <2>1, <2>2, <2>3, <2>4 DEF OnServer, Adoptable
  <2>7. QED
    BY <2>5, <2>6 DEF ContentsInv
<1>g. ASSUME NEW bytes \in Contents, FreeIds # {}, object' = Created(bytes)
      PROVE  /\ FreshId \in Live' /\ object'[FreshId].bytes = bytes
             /\ \A i \in Live' :
                  i = FreshId \/ (i \in Live /\ object'[i] = object[i])
  <2>1. /\ FreshId \in Id /\ object'[FreshId] \in Object
        /\ object'[FreshId].bytes = bytes
        /\ \A i \in Id : i # FreshId => object'[i] = object[i]
    BY <1>a, <1>g, Creating
  <2>2. QED
    BY <2>1, OverAssumption DEF Live
<1>h. ASSUME NEW bytes \in Contents, row.id \in Live,
             object' = [object EXCEPT ![row.id].bytes = bytes]
      PROVE  /\ row.id \in Live' /\ object'[row.id].bytes = bytes
             /\ \A i \in Live' :
                  i = row.id \/ (i \in Live /\ object'[i] = object[i])
  <2>1. /\ row.id \in Id /\ object'[row.id] \in Object
        /\ object'[row.id].bytes = bytes
        /\ \A i \in Id : i # row.id => object'[i] = object[i]
    BY <1>a, <1>h, Rewriting
  <2>2. QED
    BY <2>1, OverAssumption DEF Live
<1>i. ASSUME Busy, ~AtEnd, AllRead, UNCHANGED <<local, row>>,
             FreeIds # {}, object' = Created(call.read),
             Answered(Stored) \/ Unanswered
      PROVE  ContentsInv'
  <2>1. call.read \in Contents
    BY <1>a, <1>i, WholeRead
  <2>2. /\ FreshId \in Live' /\ object'[FreshId].bytes = call.read
        /\ \A i \in Live' :
             i = FreshId \/ (i \in Live /\ object'[i] = object[i])
    BY <1>g, <1>i, <2>1
  <2>3. /\ call'.hash = call.hash /\ call'.read \in {call.read, Unread}
        /\ spent'.edits = spent.edits
        /\ AtEnd' => call'.id = FreshId /\ call'.step # "delete"
    <3>1. CASE Answered(Stored)
      BY <1>a, <1>i, <3>1, Storing DEF Answered
    <3>2. CASE Unanswered
      BY <1>d, <1>i, <3>2
    <3>3. QED
      BY <1>i, <3>1, <3>2
  <2>4. QED
    BY <1>i, <2>2, <2>3, ContentsGrow
<1>j. ASSUME Busy, ~AtEnd, AllRead, UNCHANGED <<local, row>>, row.id \in Live,
             object' = [object EXCEPT ![row.id].bytes = call.read],
             Answered([Goto("record") EXCEPT !.id = row.id]) \/ Unanswered
      PROVE  ContentsInv'
  <2>1. call.read \in Contents
    BY <1>a, <1>j, WholeRead
  <2>2. /\ row.id \in Live' /\ object'[row.id].bytes = call.read
        /\ \A i \in Live' :
             i = row.id \/ (i \in Live /\ object'[i] = object[i])
    BY <1>h, <1>j, <2>1
  <2>3. /\ call'.hash = call.hash /\ call'.read \in {call.read, Unread}
        /\ spent'.edits = spent.edits
        /\ AtEnd' => call'.id = row.id /\ call'.step # "delete"
    <3>1. CASE Answered([Goto("record") EXCEPT !.id = row.id])
      BY <1>a, <1>b, <1>c, <1>j, <3>1, Naming DEF Answered
    <3>2. CASE Unanswered
      BY <1>d, <1>j, <3>2
    <3>3. QED
      BY <1>j, <3>1, <3>2
  <2>4. QED
    BY <1>j, <2>2, <2>3, ContentsGrow
<1>11. ASSUME Complete PROVE ContentsInv'
  <2>1. /\ call.step = "complete" /\ session[call.sid] # Gone
        /\ UNCHANGED <<local, row>>
        /\ session[call.sid] = call.read /\ AllRead /\ Busy /\ ~AtEnd
    BY <1>11 DEF Complete, Shape, AllSent, Busy, AtEnd
  <2>2. CASE call.kind = "version"
    BY <1>11, <1>j, <2>1, <2>2 DEF Complete
  <2>3. CASE call.kind # "version"
    BY <1>11, <1>i, <2>1, <2>3 DEF Complete
  <2>4. QED
    BY <2>2, <2>3
<1>12. ASSUME Create PROVE ContentsInv'
  BY <1>12, <1>i DEF Create, Shape, AllSent, Busy, AtEnd
<1>13. ASSUME Reupload PROVE ContentsInv'
  BY <1>13, <1>j DEF Reupload, Shape, AllSent, Busy, AtEnd
<1>14. ASSUME DropCopy PROVE ContentsInv'
  <2>1. /\ call.step = "delete" /\ call.id \in Live /\ Busy /\ call.kind = "new"
        /\ object' = [object EXCEPT ![call.id] = Gone]
        /\ UNCHANGED <<local, row>>
        /\ \/ \E i \in Own : Answered([Goto("record") EXCEPT !.id = i])
           \/ Unanswered
    BY <1>14 DEF DropCopy, Busy, Shape, StepOfKind
  <2>2. /\ call'.hash = call.hash /\ call'.read \in {call.read, Unread}
        /\ spent'.edits = spent.edits
        /\ AtEnd' => call'.step \in {"delete", "record"} /\ call'.kind = "new"
    <3>1. CASE Unanswered
      BY <1>d, <2>1, <3>1
    <3>2. CASE \E i \in Own : Answered([Goto("record") EXCEPT !.id = i])
      <4>1. PICK i \in Id : Answered([Goto("record") EXCEPT !.id = i])
        BY <1>c, <3>2
      <4>2. QED
        BY <1>a, <1>b, <2>1, <4>1, Naming DEF Answered
    <3>3. QED
      BY <2>1, <3>1, <3>2
  <2>3. /\ Live' = Live \ {call.id} /\ Known' = Known
        /\ \A i \in Live' : object'[i] = object[i]
    BY <1>a, <1>c, <2>1, <2>2 DEF Live, Known
  <2>4. PICK i \in Own : object[i].bytes = call.hash
    BY <1>c, <2>1 DEF OnServer
  <2>5. /\ i \in Live' /\ object'[i] = object[i] /\ i \in Own'
    <3>1. i \in Live /\ object[i].name = 0 /\ object[call.id].name # 0
      BY <2>1, <2>4 DEF Own, Named, ObjectsInv, Renamed
    <3>2. QED
      BY <2>3, <3>1 DEF Own, Named
  <2>6. NothingNewer'
    BY <1>c, <2>1, <2>2, <2>3 DEF NothingNewer, Unread
  <2>7. Changed' /\ ReadIsLocal' /\ AgreedIsShared'
    BY <1>c, <2>1, <2>2
       DEF Changed, ReadIsLocal, AgreedIsShared, Busy, Unread
  <2>8. OnServer'
    BY <2>2, <2>4, <2>5 DEF OnServer, AtEnd
  <2>9. QED
    BY <2>6, <2>7, <2>8 DEF ContentsInv
<1>k. ASSUME call.step = "record", row' = RowFor
      PROVE  row'.hash = call.hash /\ row'.hash \in [Part -> Known] /\ row'.id = call.id
  <2>1. call.hash # None
    BY <1>k, ContentIsOne DEF Shape, StepOfKind, Busy
  <2>2. QED
    BY <1>c, <1>k, <2>1 DEF RowFor, NothingNewer
<1>15. ASSUME Record PROVE ContentsInv'
  <2>1. /\ call.step = "record" /\ row' = RowFor /\ call' = Goto("idle")
        /\ UNCHANGED <<local, object, spent>>
    BY <1>15 DEF Record
  <2>2. call'.step = "idle" /\ call'.hash = call.hash /\ call'.read = call.read
    BY <1>a, <1>b, <2>1, Going
  <2>3. Live' = Live /\ Known' = Known
    BY <2>1 DEF Live, Known
  <2>4. NothingNewer'
    BY <1>c, <1>k, <2>1, <2>2, <2>3 DEF NothingNewer
  <2>5. AgreedIsShared'
    BY <1>c, <1>k, <2>1, <2>3 DEF AgreedIsShared, OnServer
  <2>6. QED
    BY <2>2, <2>4, <2>5 DEF ContentsInv, Changed, ReadIsLocal, OnServer, Busy
<1>16. ASSUME Swap PROVE ContentsInv'
  <2>1. /\ call.step = "record" /\ call.kind = "fresh" /\ AtEnd /\ Busy
        /\ call' = Goto("idle") /\ UNCHANGED <<local, spent>>
    BY <1>16 DEF Swap, AtEnd, Busy
  <2>2. call'.step = "idle" /\ call'.hash = call.hash /\ call'.read = call.read
    BY <1>a, <1>b, <2>1, Going
  <2>3. /\ call.id \in Live /\ call.id # row.id /\ call.id \in Id
        /\ row # NoRow /\ row.id \in Id /\ Known' = Known
    BY <1>a, <1>c, <2>1
       DEF ObjectsInv, CallKnown, FreshIsOther, Shape, StepOfKind, Known
  <2>4. NothingNewer' /\ AgreedIsShared'
    <3>1. CASE row.id \in Live
      <4>1. /\ object' = [object EXCEPT ![row.id] = Gone,
                                        ![call.id].name = object[row.id].name]
            /\ row' = RowFor
        BY <1>16, <3>1 DEF Swap
      <4> DEFINE new == [object[call.id] EXCEPT !.name = object[row.id].name]
      <4>2. object[call.id] \in Object /\ object[row.id] \in Object
        BY <1>a, <2>3, <3>1 DEF Live
      <4>3. new \in Object /\ new.bytes = object[call.id].bytes
        BY <4>2 DEF Object
      <4>4. object' = [object EXCEPT ![row.id] = Gone, ![call.id] = new]
        BY <1>a, <2>3, <4>1
      <4> HIDE DEF new
      <4>5. /\ call.id \in Live' /\ object'[call.id].bytes = object[call.id].bytes
            /\ \A i \in Live' : i \in Live /\ object'[i].bytes = object[i].bytes
        BY <1>a, <2>3, <4>3, <4>4, OverAssumption DEF Live
      <4>6. NothingNewer'
        BY <1>c, <1>k, <2>1, <2>2, <2>3, <4>1, <4>5 DEF NothingNewer
      <4>7. AgreedIsShared'
        BY <1>c, <1>k, <2>1, <4>1, <4>5 DEF AgreedIsShared, OnServer
      <4>8. QED
        BY <4>6, <4>7
    <3>2. CASE row.id \notin Live
      <4>1. object' = [object EXCEPT ![call.id] = Gone] /\ row' = row
        BY <1>16, <3>2 DEF Swap
      <4>2. \A i \in Live' : i \in Live /\ object'[i] = object[i]
        BY <1>a, <2>3, <4>1 DEF Live
      <4>3. NothingNewer'
        BY <1>c, <2>1, <2>2, <2>3, <4>1, <4>2 DEF NothingNewer
      <4>4. AgreedIsShared'
        BY <1>c, <2>1, <4>1 DEF AgreedIsShared, Changed
      <4>5. QED
        BY <4>3, <4>4
    <3>3. QED
      BY <3>1, <3>2
  <2>5. QED
    BY <2>2, <2>4 DEF ContentsInv, Changed, ReadIsLocal, OnServer, Busy
<1>17. ASSUME Pull PROVE ContentsInv'
  <2>1. call.step = "idle" /\ UNCHANGED <<object, call, spent>>
    BY <1>17 DEF Pull
  <2>2. Live' = Live /\ Known' = Known
    BY <2>1 DEF Live, Known
  <2>3. ASSUME NEW i \in Own, local' = Pulled(i).local, row' = Pulled(i).row
        PROVE  /\ local' \in [Part -> Known]
               /\ row' # NoRow => row'.hash \in [Part -> Known]
               /\ row' # NoRow /\ row'.hash = local' =>
                    \E j \in Live : object[j].bytes = local'
    <3>1. i \in Live /\ object[i].bytes \in [Part -> Known]
      BY <1>c DEF NothingNewer
    <3>2. local \in [Part -> Known] /\ (row # NoRow => row.hash \in [Part -> Known])
      BY <1>c DEF NothingNewer
    <3>3. CASE local = object[i].bytes \/ local = row.hash
      <4>1. local' = object[i].bytes
        BY <2>3, <3>3 DEF Pulled
      <4>2. row'.hash = object[i].bytes
        BY <2>3, <3>3 DEF Pulled
      <4>3. QED
        BY <3>1, <4>1, <4>2
    <3>4. CASE local # object[i].bytes /\ local # row.hash
      <4>1. CASE object[i].bytes = row.hash
        <5>1. local' = local /\ row' \in {row, NoRow}
          BY <2>3, <3>4, <4>1 DEF Pulled
        <5>2. QED
          BY <3>2, <3>4, <5>1
      <4>2. CASE object[i].bytes # row.hash
        <5>1. local' = object[i].bytes /\ row'.hash = object[i].bytes
          BY <2>3, <3>4, <4>2 DEF Pulled
        <5>2. QED
          BY <3>1, <5>1
      <4>3. QED
        BY <4>1, <4>2
    <3>5. QED
      BY <3>3, <3>4
  <2>4. NothingNewer' /\ AgreedIsShared'
    <3>1. CASE Own = {}
      <4>1. UNCHANGED <<local, row>>
        BY <1>17, <3>1 DEF Pull
      <4>2. QED
        BY <1>c, <2>1, <2>2, <4>1 DEF NothingNewer, AgreedIsShared
    <3>2. CASE Own # {}
      <4>1. PICK i \in Own : local' = Pulled(i).local /\ row' = Pulled(i).row
        BY <1>17, <3>2 DEF Pull
      <4>2. /\ local' \in [Part -> Known]
            /\ row' # NoRow => row'.hash \in [Part -> Known]
            /\ row' # NoRow /\ row'.hash = local' =>
                 \E j \in Live : object[j].bytes = local'
        BY <2>3, <4>1
      <4>3. NothingNewer'
        BY <1>c, <2>1, <2>2, <4>2 DEF NothingNewer
      <4>4. AgreedIsShared'
        BY <2>1, <2>2, <4>2 DEF AgreedIsShared
      <4>5. QED
        BY <4>3, <4>4
    <3>3. QED
      BY <3>1, <3>2
  <2>5. QED
    BY <2>1, <2>4 DEF ContentsInv, Changed, ReadIsLocal, OnServer, Busy
<1>18. ASSUME Edit PROVE ContentsInv'
  <2>1. /\ UNCHANGED <<row, object, call>> /\ spent.edits < Edits
        /\ spent'.edits = spent.edits + 1 /\ local' = Whole(spent.edits + 1)
    BY <1>18, <1>a DEF Edit
  <2>2. local' # row.hash /\ local' # call.hash
    BY <1>c, <2>1, NewerIsOther
  <2>3. Known \subseteq Known' /\ spent.edits + 1 \in Known' /\ Live' = Live
        /\ Own' = Own
    BY <1>a, <2>1 DEF Known, Live, Own, Named
  <2>4. NothingNewer'
    <3>1. local' \in [Part -> Known']
      BY <2>1, <2>3 DEF Whole
    <3>2. /\ [Part -> Known] \subseteq [Part -> Known']
          /\ [Part -> Known \cup {None}] \subseteq [Part -> Known' \cup {None}]
      BY <2>3
    <3>3. QED
      BY <1>c, <2>1, <2>3, <3>1, <3>2 DEF NothingNewer
  <2>5. QED
    BY <1>c, <2>1, <2>2, <2>3, <2>4
       DEF ContentsInv, Changed, ReadIsLocal, OnServer, AgreedIsShared, Busy
<1>19. CASE UNCHANGED vars
  BY <1>19 DEF vars, ContentsInv, NothingNewer, Changed, ReadIsLocal, OnServer,
     AgreedIsShared, Busy, Live, Own, Named, Known
<1>20. QED
  BY <1>1, <1>2, <1>3, <1>4, <1>5, <1>6, <1>7, <1>8, <1>9, <1>10, <1>11, <1>12,
     <1>13, <1>14, <1>15, <1>16, <1>17, <1>18, <1>19 DEF Next, Client
-----------------------------------------------------------------------------
(* The theorems.                                                            *)

IInv == Shape /\ ObjectsInv /\ SessionsInv /\ ContentsInv

(* The inductive invariant holds at the start.                              *)
LEMMA InitOK == Init => IInv
<1> SUFFICES ASSUME Init PROVE IInv
  OBVIOUS
<1> USE UploadAssumption, OverAssumption DEF Init
<1>1. 0 \in Version /\ Whole(0) \in Contents /\ 1 \in 1..Attempts /\ Unread \in Bytes
      /\ "idle" \in Steps /\ "new" \in Kind
  BY DEF Version, Whole, Contents, Unread, Bytes, Steps, Kind
<1>2. call \in Call
  BY <1>1 DEF Call
<1>3. Shape
  BY <1>1, <1>2
     DEF Shape, Typed, StepOfKind, SessionTaken, AllSent, Busy, AtEnd,
     Sending
<1>4. Live = {}
  BY DEF Live
<1>5. ObjectsInv
  BY DEF ObjectsInv, RowKnown, CallKnown, Renamed, FreshIsOther, AtEnd
<1>6. SessionsInv
  BY DEF SessionsInv, SessionOver, AbortPaid
<1>7. ContentsInv
  BY <1>4 DEF ContentsInv, NothingNewer, Changed, ReadIsLocal, OnServer,
     AgreedIsShared, Busy, Known, Whole, Unread
<1>8. QED
  BY <1>3, <1>5, <1>6, <1>7 DEF IInv

(* Every step keeps the inductive invariant.                                *)
LEMMA StepOK == IInv /\ [Next]_vars => IInv'
BY ShapeKept, ObjectsKept, SessionsKept, ContentsKept DEF IInv

(* The inductive invariant holds in every state.                            *)
LEMMA Holds == Spec => []IInv
BY InitOK, StepOK, PTL DEF Spec

(* Every variable holds what its declaration says, however many requests    *)
(* are lost and however often the file is rewritten.                        *)
THEOREM TypeCorrect == Spec => []TypeOK
<1>1. IInv => TypeOK
  BY OverAssumption
     DEF IInv, Shape, Typed, TypeOK, Live, Call, Kind, Object, Bytes
<1>2. QED
  BY <1>1, Holds, PTL

(* A session whose id the client was told of is closed once its call is     *)
(* over, unless more requests were lost than the abort has tries: a request *)
(* of the upload first, then every try of upload_abort.                     *)
THEOREM SessionsClosed == Spec => []KnownSessionClosed
<1>1. IInv => KnownSessionClosed
  <2> SUFFICES ASSUME IInv, spent.losses <= Attempts, call.sid # None,
                      call.step \notin {"read", "put", "complete", "abort"}
               PROVE  session[call.sid] = Gone
    BY DEF KnownSessionClosed
  <2>1. ~Sending /\ spent.losses \in Nat /\ Attempts \in Nat
    BY UploadAssumption DEF Sending, IInv, Shape, Typed
  <2>2. session[call.sid] = Gone \/ spent.losses > Attempts
    BY <2>1 DEF IInv, SessionsInv, SessionOver
  <2>3. QED
    BY <2>1, <2>2
<1>2. QED
  BY <1>1, Holds, PTL

(* A file the client takes for synchronised has its content on the server,  *)
(* whatever was lost, sent twice or rewritten while push_local_file ran.    *)
THEOREM TrackedIsShared == Spec => []AgreedIsShared
<1>1. IInv => AgreedIsShared
  BY DEF IInv, ContentsInv
<1>2. QED
  BY <1>1, Holds, PTL
-----------------------------------------------------------------------------
(* One object of a file nobody rewrites.                                    *)

(* The file is never rewritten, and at most one request is lost.            *)
Quiet == spent.edits = 0 /\ spent.losses <= 1
One == \E i \in Id : Live = {i}

(* An object the row does not know yet is there only if the answer that     *)
(* named it was the one lost: it holds the name, and is found by the check. *)
Alone ==
  /\ Busy => row = NoRow
  /\ row # NoRow \/ call.step = "record" => One
  /\ row = NoRow /\ ~AtEnd => Live = Own /\ (Live = {} \/ (spent.losses = 1 /\ One))
  /\ call.step \in {"check", "delete"} =>
       /\ spent.losses = 1
       /\ \E i \in Own : i # call.id /\ Live = {i, call.id}
AloneInv == Quiet => Alone

(* No step takes a loss or a rewrite back.                                  *)
LEMMA QuietBefore ==
  ASSUME IInv, [Next]_vars, Quiet'
  PROVE  Quiet /\ spent.losses \in 0..1 /\ spent'.losses \in spent.losses..1
<1>1. /\ spent = [losses |-> spent.losses, edits |-> spent.edits]
      /\ spent.losses \in Nat /\ spent.edits \in Nat
  BY UploadAssumption DEF IInv, Shape, Typed
<1>2. \/ spent' = spent
      \/ spent' = [spent EXCEPT !.losses = @ + 1]
      \/ spent' = [spent EXCEPT !.edits = @ + 1]
  BY DEF Next, Client, Begin, ReadPart, OpenSession, PutPart, Complete,
     CompleteUnknown, Create, Reupload, ReuploadUnknown, AbortSession, CheckName,
     DropCopy, DropCopyUnknown, Record, Swap, Pull, NeverArrives, Refused, Edit,
     Answered, Unanswered, Lose, vars
<1>3. /\ spent'.losses \in {spent.losses, spent.losses + 1}
      /\ spent'.edits \in {spent.edits, spent.edits + 1}
  BY <1>1, <1>2
<1>4. QED
  BY <1>1, <1>3 DEF Quiet

(* There is one content only.                                               *)
LEMMA OneContent ==
  ASSUME IInv, Quiet
  PROVE  /\ row # NoRow => row.hash = local
         /\ Busy => row = NoRow /\ call.kind = "new" /\ call.hash = local
         /\ \A i \in Live : object[i].bytes = local
<1>1. NothingNewer /\ Changed /\ Known = {0}
  BY DEF IInv, ContentsInv, Known, Quiet
<1>2. \A f, g \in [Part -> Known] : f = g
  BY <1>1
<1>3. Known \cap {None} = {}
  BY <1>1, UploadAssumption
<1>4. row # NoRow => row.hash = local
  BY <1>1, <1>2 DEF NothingNewer
<1>5. Busy => row = NoRow /\ call.kind = "new" /\ call.hash \in Contents
  BY <1>1, <1>4 DEF Changed, IInv, Shape, StepOfKind
<1>6. None \notin Contents
  BY OverAssumption DEF Contents, Bytes
<1>7. QED
  BY <1>1, <1>2, <1>4, <1>5, <1>6 DEF NothingNewer

(* The first object takes the name, and a second one cannot.                *)
LEMMA FirstTakesTheName ==
  /\ Live = {} => FreshName = 0
  /\ Own # {} => FreshName # 0
<1>1. Live = {} => FreshName \in 0..0
  BY FreshNameIsFree, FS_EmptySet
<1>2. QED
  BY <1>1, FreshNameIsFree DEF Own

(* What a creation leaves: the only object, or a copy beside the one whose  *)
(* answer was lost.                                                         *)
LEMMA CreationAlone ==
  ASSUME IInv, Alone, Quiet, Busy, ~AtEnd, FreeIds # {}, UNCHANGED row,
         NEW bytes \in Contents, object' = Created(bytes),
         spent'.losses \in spent.losses..1,
         \/ Answered(Stored)
         \/ ~AtEnd' /\ spent'.losses = spent.losses + 1
  PROVE  Alone'
<1> DEFINE f == FreshId
<1>1. /\ object \in [Id -> {None, Gone} \cup Object] /\ call \in Call
      /\ spent.losses \in 0..1
  BY UploadAssumption DEF IInv, Shape, Typed, Quiet
<1>2. /\ f \in Id /\ f \notin Live /\ object'[f] \in Object
      /\ object'[f].name = FreshName
      /\ \A i \in Id : i # f => object'[i] = object[i]
  BY <1>1, Creating DEF Live
<1>3. Live' = Live \cup {f}
  BY <1>2, OverAssumption DEF Live
<1>4. row = NoRow /\ call.kind = "new"
  BY OneContent
<1>5. Live = Own /\ (Live = {} \/ (spent.losses = 1 /\ One))
  BY <1>4 DEF Alone
<1> HIDE DEF f
<1>6. CASE Live = {}
  <2>1. Live' = {f} /\ Own' = {f} /\ One'
    BY <1>2, <1>3, <1>6, FirstTakesTheName DEF Own, Named, One
  <2>2. CASE Answered(Stored)
    <3>1. call'.step = "record"
      BY <1>1, <1>6, <2>2, Storing, FirstTakesTheName DEF Answered
    <3>2. QED
      BY <1>4, <2>1, <3>1 DEF Alone, AtEnd, Busy
  <2>3. CASE ~AtEnd' /\ spent'.losses = spent.losses + 1
    <3>1. spent'.losses = 1
      BY <1>1, <2>3
    <3>2. QED
      BY <1>4, <2>1, <2>3, <3>1 DEF Alone, AtEnd, Busy
  <2>4. QED
    BY <2>2, <2>3
<1>7. CASE Live # {}
  <2>1. spent.losses = 1 /\ spent'.losses = 1
    BY <1>5, <1>7
  <2>2. PICK i \in Id : Live = {i}
    BY <1>5, <1>7 DEF One
  <2>3. i # f /\ Live' = {i, f} /\ i \in Own'
    BY <1>2, <1>3, <1>5, <2>2 DEF Own, Named
  <2>4. Answered(Stored)
    BY <2>1
  <2>5. call'.step = "check" /\ call'.id = f
    BY <1>1, <1>4, <1>5, <1>7, <2>4, Storing, FirstTakesTheName DEF Answered, f
  <2>6. QED
    BY <1>4, <2>1, <2>3, <2>5 DEF Alone, AtEnd, Busy
<1>8. QED
  BY <1>6, <1>7

(* Every step leaves one object.                                            *)
LEMMA AloneKept ==
  ASSUME IInv, IInv', AloneInv, [Next]_vars
  PROVE  AloneInv'
<1> SUFFICES ASSUME Quiet' PROVE Alone'
  BY DEF AloneInv
<1>a. /\ Quiet /\ Alone /\ spent.losses \in 0..1
      /\ spent'.losses \in spent.losses..1
  BY QuietBefore DEF AloneInv
<1>b. /\ call \in Call /\ object \in [Id -> {None, Gone} \cup Object]
      /\ {"idle", "read", "abort", "record", "delete", "complete"} \subseteq Steps
      /\ Shape
  BY DEF IInv, Shape, Typed, Steps, Retried
<1>c. Busy => row = NoRow /\ call.kind = "new" /\ call.hash = local
  BY <1>a, OneContent
<1>d. ASSUME ~AtEnd, ~AtEnd', UNCHANGED <<object, row>>, Busy' => row = NoRow
      PROVE  Alone'
  <2>1. Live' = Live /\ Own' = Own
    BY <1>d DEF Live, Own, Named
  <2>2. spent.losses = 1 => spent'.losses = 1
    BY <1>a
  <2>3. QED
    BY <1>a, <1>d, <2>1, <2>2 DEF Alone, One, AtEnd
(* At the check nothing is left to lose.                                    *)
<1>e. ASSUME Unanswered \/ (Lose /\ call' = AfterGivingUp), Busy, call.step # "record"
      PROVE  ~AtEnd /\ ~AtEnd' /\ spent'.losses = spent.losses + 1
  <2>1. spent'.losses = spent.losses + 1
    BY <1>b, <1>e DEF Unanswered, Lose, Shape, Typed
  <2>2. call.step \notin {"check", "delete"}
    BY <1>a, <2>1 DEF Alone
  <2>3. Losing
    BY <1>b, <1>e, Loses, GivesUp DEF Losing
  <2>4. QED
    BY <1>e, <2>1, <2>2, <2>3
       DEF AtEnd, Losing, GivingUp, Failing, Again, To, Afresh, FirstStep
<1>1. ASSUME Begin PROVE Alone'
  <2>1. row = NoRow
    BY <1>1, <1>a, OneContent DEF Begin
  <2>2. call' = Start("new", local) /\ local \in Contents /\ "new" \in Kind
    BY <1>1, <1>b, <2>1 DEF Begin, Shape, Typed, Kind
  <2>3. ~AtEnd'
    BY <1>b, <2>2, Starting DEF AtEnd, FirstStep
  <2>4. QED
    BY <1>1, <1>d, <2>1, <2>3 DEF Begin, AtEnd
<1>2. ASSUME NeverArrives \/ Refused PROVE Alone'
  <2>1. /\ Busy /\ call.step # "record" /\ UNCHANGED <<object, row>>
        /\ Unanswered \/ (Lose /\ call' = AfterGivingUp)
    BY <1>2 DEF NeverArrives, Refused, Busy, Retried
  <2>2. QED
    BY <1>c, <1>d, <1>e, <2>1
<1>3. ASSUME ReadPart PROVE Alone'
  <2>1. /\ call.step = "read" /\ Busy /\ UNCHANGED <<object, row>>
        /\ call'.step \in {"read", "put", "create", "reupload"}
    BY <1>3, <1>b DEF ReadPart, Busy, Call
  <2>2. QED
    BY <1>c, <1>d, <2>1 DEF AtEnd
<1>4. ASSUME OpenSession \/ PutPart \/ AbortSession \/ CompleteUnknown
             \/ ReuploadUnknown
      PROVE  Alone'
  <2>1. /\ Busy /\ ~AtEnd /\ UNCHANGED <<object, row>>
    BY <1>4 DEF OpenSession, PutPart, AbortSession, CompleteUnknown,
       ReuploadUnknown, Busy, AtEnd
  <2>2. ~AtEnd'
    <3>1. CASE Unanswered
      BY <1>e, <2>1, <3>1 DEF AtEnd
    <3>2. CASE OpenSession /\ ~Unanswered
      <4>1. call'.step = Goto("read").step
        BY <1>b, <3>2, Going DEF OpenSession, Answered, Call
      <4>2. QED
        BY <1>b, <4>1, Going DEF AtEnd
    <3>3. CASE PutPart /\ ~Unanswered
      BY <1>b, <3>3, Going DEF PutPart, Answered, AtEnd
    <3>4. CASE AbortSession /\ ~Unanswered
      <4>1. call' = AfterFailure
        BY <3>4 DEF AbortSession, Answered
      <4>2. Failing
        BY <1>b, <2>1, <4>1, Fails
      <4>3. QED
        BY <4>2 DEF Failing, To, Afresh, FirstStep, AtEnd
    <3>5. CASE CompleteUnknown \/ ReuploadUnknown
      BY <1>b, <3>5, Going DEF CompleteUnknown, ReuploadUnknown, Answered, AtEnd
    <3>6. QED
      BY <1>4, <3>1, <3>2, <3>3, <3>4, <3>5
  <2>3. QED
    BY <1>c, <1>d, <2>1, <2>2
<1>5. ASSUME Complete \/ Create PROVE Alone'
  <2>1. /\ Busy /\ ~AtEnd /\ call.step # "record" /\ FreeIds # {} /\ UNCHANGED row
        /\ AllRead /\ call.read \in Contents
        /\ Answered(Stored) \/ Unanswered
    BY <1>5, <1>b, <1>c, WholeRead
       DEF Complete, Create, Busy, AtEnd, Shape, AllSent
  <2>2. object' = Created(call.read)
    BY <1>5, <1>b, <1>c, <2>1 DEF Complete, Create, Shape, AllSent
  <2>3. CASE Answered(Stored)
    BY <1>a, <2>1, <2>2, <2>3, CreationAlone
  <2>4. CASE Unanswered
    <3>1. ~AtEnd' /\ spent'.losses = spent.losses + 1
      BY <1>e, <2>1, <2>4
    <3>2. QED
      BY <1>a, <2>1, <2>2, <3>1, CreationAlone
  <2>5. QED
    BY <2>1, <2>3, <2>4
<1>6. ASSUME CheckName PROVE Alone'
  <2>1. /\ call.step = "check" /\ Busy /\ UNCHANGED <<object, row, spent>>
    BY <1>6 DEF CheckName, Answered, Busy
  <2>2. PICK i \in Own : i # call.id /\ Live = {i, call.id}
    BY <1>a, <2>1 DEF Alone
  <2>3. i \in Live
    BY DEF Own, Named
  <2>4. Adoptable
    BY <1>a, <1>c, <2>1, <2>3, OneContent DEF Adoptable
  <2>5. call'.step = "delete" /\ call'.id = call.id
    BY <1>6, <1>b, <2>4, Going DEF CheckName, Answered
  <2>6. Live' = Live /\ Own' = Own
    BY <2>1 DEF Live, Own, Named
  <2>7. QED
    BY <1>a, <1>c, <2>1, <2>2, <2>5, <2>6 DEF Alone, AtEnd
<1>7. ASSUME DropCopy PROVE Alone'
  <2>1. /\ call.step = "delete" /\ Busy /\ UNCHANGED row
        /\ object' = [object EXCEPT ![call.id] = Gone]
    BY <1>7 DEF DropCopy, Busy
  <2>2. PICK i \in Own : i # call.id /\ Live = {i, call.id}
    BY <1>a, <2>1 DEF Alone
  <2>3. ~Unanswered
    BY <1>e, <2>1 DEF AtEnd
  <2>4. PICK j \in Own : Answered([Goto("record") EXCEPT !.id = j])
    BY <1>7, <2>3 DEF DropCopy
  <2>5. i \in Id /\ j \in Id /\ call.id \in Id
    BY <2>2 DEF Own, Named, Live
  <2>6. call'.step = "record"
    BY <1>b, <2>4, <2>5, Naming DEF Answered
  <2>7. Live' = {i}
    BY <1>b, <2>1, <2>2, <2>5 DEF Live
  <2>8. QED
    BY <1>c, <2>1, <2>5, <2>6, <2>7 DEF Alone, AtEnd, One
<1>8. ASSUME DropCopyUnknown PROVE Alone'
  BY <1>8, <1>a DEF DropCopyUnknown, Alone
<1>9. ASSUME Record PROVE Alone'
  <2>1. One /\ UNCHANGED object /\ call'.step = "idle" /\ row' = RowFor
    BY <1>9, <1>a, <1>b, Going DEF Record, Alone
  <2>2. row' # NoRow /\ One'
    <3>1. call.id \in Id
      BY <1>9, <1>b DEF Record, Shape, StepOfKind, AtEnd
    <3>2. QED
      BY <2>1, <3>1, UploadAssumption DEF RowFor, NoRow, One, Live
  <2>3. QED
    BY <2>1, <2>2 DEF Alone, Busy, AtEnd
<1>10. ASSUME Reupload \/ Swap PROVE Alone'
  BY <1>10, <1>b, <1>c DEF Reupload, Swap, Busy, Shape, StepOfKind
<1>11. ASSUME Pull PROVE Alone'
  <2>1. /\ ~Busy /\ ~AtEnd /\ ~Busy' /\ ~AtEnd' /\ UNCHANGED <<object, call>>
    BY <1>11 DEF Pull, Busy, AtEnd
  <2>2. CASE Own = {}
    BY <1>11, <1>d, <2>1, <2>2 DEF Pull
  <2>3. CASE Own # {}
    <3>1. PICK i \in Own : row' = Pulled(i).row
      BY <1>11, <2>3 DEF Pull
    <3>2. i \in Live /\ i \in Id
      BY DEF Own, Named, Live
    <3>3. row' = [id |-> i, hash |-> object[i].bytes]
      BY <1>a, <3>1, <3>2, OneContent DEF Pulled
    <3>4. row' # NoRow
      BY <3>2, <3>3, UploadAssumption DEF NoRow
    <3>5. One /\ One'
      BY <1>a, <2>1, <3>2 DEF Alone, One, Live
    <3>6. QED
      BY <2>1, <3>4, <3>5 DEF Alone, Busy, AtEnd
  <2>4. QED
    BY <2>2, <2>3
<1>12. ASSUME Edit PROVE Alone'
  BY <1>12, <1>b, <1>a DEF Edit, Quiet, Shape, Typed
<1>13. CASE UNCHANGED vars
  BY <1>13, <1>a DEF vars, Alone, Busy, AtEnd, One, Live, Own, Named
<1>14. QED
  BY <1>1, <1>2, <1>3, <1>4, <1>5, <1>6, <1>7, <1>8, <1>9, <1>10, <1>11, <1>12,
     <1>13 DEF Next, Client

(* A file nobody rewrites is one object on the server whenever the client   *)
(* has it tracked, even if one request or its answer was lost: whichever it *)
(* was, adopt_existing_file finds the object the lost answer left behind.   *)
THEOREM OneObjectOnly == Spec => []OneObject
<1>1. Init => AloneInv
  <2>1. Init => Live = {}
    BY DEF Init, Live
  <2>2. QED
    BY <2>1 DEF Init, AloneInv, Alone, Busy, AtEnd, Own, Named
<1>2. IInv /\ IInv' /\ AloneInv /\ [Next]_vars => AloneInv'
  BY AloneKept
<1>3. IInv /\ AloneInv => OneObject
  <2> SUFFICES ASSUME AloneInv, Quiet, row # NoRow PROVE Cardinality(Live) = 1
    BY DEF OneObject, Quiet
  <2>1. PICK i \in Id : Live = {i}
    BY DEF AloneInv, Alone, One
  <2>2. QED
    BY <2>1, FS_Singleton
<1>4. QED
  BY <1>1, <1>2, <1>3, Holds, PTL DEF Spec
=============================================================================
