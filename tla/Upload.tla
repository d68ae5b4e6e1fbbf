------------------------------- MODULE Upload -------------------------------
(***************************************************************************)
(* One file on its way to the server: sync/push.rs, sync/transfer.rs,       *)
(* api/upload.rs, api/upload_session.rs and api/retry.rs.                   *)
(*                                                                          *)
(* FileSync sends a file in one step.  Here the bytes are read part by      *)
(* part while the user may rewrite the file, every request may be lost on   *)
(* the way there or on the way back, the client sends a lost request        *)
(* again, and a session the server opened has to be closed.                 *)
(*                                                                          *)
(* A hash is its content: two contents never share one.  A rewrite          *)
(* happens in place, so a reader that is half-way sees both versions.       *)
(***************************************************************************)
EXTENDS Integers, FiniteSets, FiniteSetsExt, Functions

CONSTANTS
  Id,          \* object ids the server hands out, taken in order
  Sid,         \* upload session ids, taken in order
  Parts,       \* parts a file is sent in
  Attempts,    \* MAX_ATTEMPTS
  Losses,      \* bound: requests lost or refused
  Edits,       \* bound: rewrites by the user
  None,
  Gone         \* what an id or a session stands for once it is over

ASSUME UploadAssumption ==
  /\ Parts \in Nat \ {0} /\ Attempts \in Nat \ {0}
  /\ Losses \in Nat /\ Edits \in Nat
  /\ Id \subseteq Nat /\ IsFiniteSet(Id) /\ Id # {}
  /\ Sid \subseteq Nat /\ IsFiniteSet(Sid) /\ Sid # {}
  /\ None \notin Nat /\ Gone \notin Nat /\ None # Gone

VARIABLES
  size,        \* how far above CHUNKED_THRESHOLD and REUPLOAD_MAX it is
  local,       \* the local file
  row,         \* its tracking row
  object,      \* the server's objects under this name
  session,     \* the upload sessions the server keeps open
  call,        \* the call under way
  aside,       \* conflict copies
  due,         \* a pass or an event of the watcher looks at the file
  spent        \* what the bounds count

server == <<object, session>>
vars == <<size, local, row, object, session, call, aside, due, spent>>

Size == {"small", "medium", "large"}
Part == 1..Parts
Version == 0..Edits
Contents == [Part -> Version]
Whole(v) == [k \in Part |-> v]
Unread == [k \in Part |-> None]

Bytes == [Part -> Version \cup {None}]
Object == [name : Nat, bytes : Contents]

ASSUME OverAssumption ==
  {None, Gone} \cap Bytes = {} /\ None \notin Object /\ Gone \notin Object

NoRow == [id |-> None, hash |-> None]

Live == {i \in Id : object[i] \notin {None, Gone}}
Named(n) == {i \in Live : object[i].name = n}
Own == Named(0)
FreeIds == {i \in Id : object[i] = None}
FreshId == Min(FreeIds)
FreeSids == {s \in Sid : session[s] = None}

(* The server stores a name that is taken as `name (n).ext`.                *)
FreshName == Min({n \in 0..Cardinality(Live) : Named(n) = {}})

Created(bytes) ==
  [object EXCEPT ![FreshId] = [name |-> FreshName, bytes |-> bytes]]

Init ==
  /\ size \in Size
  /\ local = Whole(0)
  /\ row = NoRow
  /\ object = [i \in Id |-> None]
  /\ session = [s \in Sid |-> None]
  /\ call = [step |-> "idle", kind |-> "new", hash |-> None, read |-> Unread,
             attempt |-> 1, sid |-> None, id |-> None]
  /\ aside = {}
  /\ due = TRUE
  /\ spent = [losses |-> 0, edits |-> 0]

-----------------------------------------------------------------------------
(* Starting, and what an error leads to.                                    *)

(* A new file above CHUNKED_THRESHOLD and a version above REUPLOAD_MAX go   *)
(* through a session.                                                       *)
InSession(kind) == kind # "reupload" /\ size # "small"
FirstStep(kind) == IF InSession(kind) THEN "init" ELSE "read"

Start(kind, hash) ==
  [call EXCEPT !.step = FirstStep(kind), !.kind = kind, !.hash = hash,
               !.read = Unread, !.attempt = 1, !.id = None]

(* push_local_file.                                                         *)
Begin ==
  /\ call.step = "idle"
  /\ due /\ due' = FALSE
  /\ row.hash # local
  /\ call' = Start(IF row = NoRow THEN "new"
                   ELSE IF size = "large" THEN "version" ELSE "reupload", local)
  /\ UNCHANGED <<size, local, row, object, session, aside, spent>>

Goto(step) == [call EXCEPT !.step = step, !.attempt = 1]

(* A large file the server could not take as a version is sent again as a   *)
(* new object.                                                              *)
AfterFailure == IF call.kind = "version" THEN Start("fresh", call.hash) ELSE Goto("idle")

AfterGivingUpUnclosed ==
  IF call.step = "delete" THEN Goto("record") ELSE AfterFailure
AfterGivingUp ==
  CASE call.step \in {"put", "complete"} -> Goto("abort")
    [] call.step = "delete" -> Goto("record")
    [] OTHER -> AfterFailure

Retried == {"init", "put", "complete", "create", "check", "delete", "abort"}

Lose == spent.losses < Losses /\ spent' = [spent EXCEPT !.losses = @ + 1]

(* send_with_retry: the answer does not come.                               *)
UnansweredOnceMore ==
  /\ Lose
  /\ call' = IF call.step \in Retried /\ call.attempt <= Attempts
             THEN [call EXCEPT !.attempt = @ + 1]
             ELSE AfterGivingUp
Unanswered ==
  /\ Lose
  /\ call' = IF call.step \in Retried /\ call.attempt < Attempts
             THEN [call EXCEPT !.attempt = @ + 1]
             ELSE AfterGivingUp

Answered(next) == call' = next /\ UNCHANGED spent

(* The request never reaches the server, or the server refuses it at once.  *)
NeverArrives ==
  /\ call.step \in Retried \cup {"reupload"}
  /\ Unanswered
  /\ UNCHANGED <<size, local, row, object, session, aside, due>>

Refused ==
  /\ call.step \in {"init", "put", "complete", "create", "reupload"}
  /\ Lose
  /\ call' = AfterGivingUp
  /\ UNCHANGED <<size, local, row, object, session, aside, due>>

-----------------------------------------------------------------------------
(* Sending.                                                                 *)

NextPart == Min({k \in Part : call.read[k] = None})
AllRead == \A k \in Part : call.read[k] # None

(* One part of the file is read.  A small file is read whole before it is   *)
(* sent, a reupload streams, a session puts each part before the next.      *)
ReadPart ==
  /\ call.step = "read"
  /\ LET got == [call.read EXCEPT ![NextPart] = local[NextPart]]
         last == \A k \in Part : got[k] # None
     IN call' = [call EXCEPT
          !.read = got, !.attempt = 1,
          !.step = CASE call.kind = "reupload" -> IF last THEN "reupload" ELSE "read"
                     [] InSession(call.kind) -> "put"
                     [] OTHER -> IF last THEN "create" ELSE "read"]
  /\ UNCHANGED <<size, local, row, object, session, aside, due, spent>>

OpenSession ==
  /\ call.step = "init"
  /\ FreeSids # {}                                      \* bound: Sid
  /\ LET s == Min(FreeSids) IN
     /\ session' = [session EXCEPT ![s] = Unread]
     /\ \/ Answered([Goto("read") EXCEPT !.sid = s])
        \/ Unanswered
  /\ UNCHANGED <<size, local, row, object, aside, due>>

PutPart ==
  /\ call.step = "put"
  /\ session' = [session EXCEPT ![call.sid] = call.read]
  /\ \/ Answered(Goto(IF AllRead THEN "complete" ELSE "read"))
     \/ Unanswered
  /\ UNCHANGED <<size, local, row, object, aside, due>>

(* An upload the server renamed is looked at before it is recorded.         *)
Stored ==
  IF call.kind = "new" /\ FreshName # 0
  THEN [Goto("check") EXCEPT !.id = FreshId]
  ELSE [Goto("record") EXCEPT !.id = FreshId]

(* upload_complete.                                                         *)
Complete ==
  /\ call.step = "complete"
  /\ session[call.sid] # Gone
  /\ session' = [session EXCEPT ![call.sid] = Gone]
  /\ IF call.kind = "version"
     THEN /\ row.id \in Live
          /\ object' = [object EXCEPT ![row.id].bytes = session[call.sid]]
          /\ Answered([Goto("record") EXCEPT !.id = row.id]) \/ Unanswered
     ELSE /\ FreeIds # {}                                 \* bound: Id
          /\ object' = Created(session[call.sid])
          /\ Answered(Stored) \/ Unanswered
  /\ UNCHANGED <<size, local, row, aside, due>>

(* The server forgets a session once it is complete, and knows no version   *)
(* of an object that is gone.                                               *)
CompleteUnknown ==
  /\ call.step = "complete"
  /\ session[call.sid] = Gone \/ (call.kind = "version" /\ row.id \notin Live)
  /\ Answered(Goto("abort"))
  /\ UNCHANGED <<size, local, row, object, session, aside, due>>

(* upload_file.                                                             *)
Create ==
  /\ call.step = "create"
  /\ FreeIds # {}                                       \* bound: Id
  /\ object' = Created(call.read)
  /\ Answered(Stored) \/ Unanswered
  /\ UNCHANGED <<size, local, row, session, aside, due>>

(* reupload_file: the body is a stream and is never sent again.             *)
Reupload ==
  /\ call.step = "reupload"
  /\ row.id \in Live
  /\ object' = [object EXCEPT ![row.id].bytes = call.read]
  /\ Answered([Goto("record") EXCEPT !.id = row.id]) \/ Unanswered
  /\ UNCHANGED <<size, local, row, session, aside, due>>

ReuploadUnknown ==
  /\ call.step = "reupload"
  /\ row.id \notin Live
  /\ Answered(Goto("idle"))
  /\ UNCHANGED <<size, local, row, object, session, aside, due>>

(* upload_abort.                                                            *)
AbortSession ==
  /\ call.step = "abort"
  /\ session' = [session EXCEPT ![call.sid] = Gone]
  /\ \/ Answered(AfterFailure)
     \/ Unanswered
  /\ UNCHANGED <<size, local, row, object, aside, due>>

-----------------------------------------------------------------------------
(* Once the bytes are on the server.                                        *)

(* adopt_existing_file: the object that holds the name has the very same    *)
(* content.                                                                 *)
NeverAdoptable == FALSE
Adoptable == \E i \in Own : object[i].bytes = call.hash

CheckName ==
  /\ call.step = "check"
  /\ Answered(Goto(IF Adoptable THEN "delete" ELSE "record"))
  /\ UNCHANGED <<size, local, row, object, session, aside, due>>

DropCopy ==
  /\ call.step = "delete"
  /\ call.id \in Live
  /\ object' = [object EXCEPT ![call.id] = Gone]
  /\ \/ \E i \in Own : Answered([Goto("record") EXCEPT !.id = i])
     \/ Unanswered
  /\ UNCHANGED <<size, local, row, session, aside, due>>

(* An answer that says the copy is not there is an error, and the copy is   *)
(* recorded.                                                                *)
DropCopyUnknown ==
  /\ call.step = "delete"
  /\ call.id \notin Live
  /\ Answered(Goto("record"))
  /\ UNCHANGED <<size, local, row, object, session, aside, due>>

(* The hash is the one taken before the bytes were sent.                    *)
RowAfterSending == [id |-> call.id, hash |-> local]
RowFor == [id |-> call.id, hash |-> call.hash]

(* record_file.                                                             *)
Record ==
  /\ call.step = "record"
  /\ call.kind # "fresh"
  /\ row' = RowFor
  /\ call' = Goto("idle")
  /\ UNCHANGED <<size, local, object, session, aside, due, spent>>

(* swap_in_new_object, which SwapUpdate takes apart: the new object takes   *)
(* the place of the old one, or is dropped when there is none.              *)
Swap ==
  /\ call.step = "record"
  /\ call.kind = "fresh"
  /\ IF row.id \in Live
     THEN /\ object' = [object EXCEPT ![row.id] = Gone,
                                      ![call.id].name = object[row.id].name]
          /\ row' = RowFor
     ELSE object' = [object EXCEPT ![call.id] = Gone] /\ UNCHANGED row
  /\ call' = Goto("idle")
  /\ UNCHANGED <<size, local, session, aside, due, spent>>

-----------------------------------------------------------------------------
(* What surrounds a call.                                                   *)

(* The pass that follows every poll interval: remote_version_wins, for the  *)
(* object that holds the name, and handle_deleted_remote_file, which lets   *)
(* go of an edited file whose object is gone.                               *)
PulledWithoutRow(i) ==
  [local |-> object[i].bytes, row |-> row, aside |-> aside]
Pulled(i) ==
  LET theirs == object[i].bytes
      taken == [id |-> i, hash |-> theirs]
  IN CASE local = theirs -> [local |-> local, row |-> taken, aside |-> aside]
       [] local # theirs /\ local = row.hash ->
            [local |-> theirs, row |-> taken, aside |-> aside]
       [] local # theirs /\ theirs = row.hash ->
            [local |-> local, row |-> IF row.id \in Live THEN row ELSE NoRow,
             aside |-> aside]
       [] OTHER -> [local |-> theirs, row |-> taken, aside |-> aside \cup {local}]

Pull ==
  /\ call.step = "idle"
  /\ due' = TRUE
  /\ IF Own = {} THEN UNCHANGED <<local, row, aside>>
     ELSE \E i \in Own :
            /\ local' = Pulled(i).local
            /\ row' = Pulled(i).row
            /\ aside' = Pulled(i).aside
  /\ UNCHANGED <<size, object, session, call, spent>>

(* The user rewrites the file, never with what it held before.              *)
Edit ==
  /\ spent.edits < Edits
  /\ spent' = [spent EXCEPT !.edits = @ + 1]
  /\ local' = Whole(spent.edits + 1)
  /\ due' = TRUE
  /\ UNCHANGED <<size, row, object, session, call, aside>>

Client ==
  \/ Begin \/ ReadPart \/ OpenSession \/ PutPart
  \/ Complete \/ CompleteUnknown \/ Create \/ Reupload \/ ReuploadUnknown
  \/ AbortSession \/ CheckName \/ DropCopy \/ DropCopyUnknown
  \/ Record \/ Swap \/ Pull

Next == Client \/ NeverArrives \/ Refused \/ Edit

Spec == Init /\ [][Next]_vars

(* Every request ends, a pass follows every poll interval and pushes what   *)
(* it finds changed, and losses and rewrites come to an end.                *)
LiveSpec == Spec /\ WF_vars(Client) /\ WF_vars(Begin)

-----------------------------------------------------------------------------
(* Properties.                                                              *)

Steps == Retried \cup {"idle", "read", "reupload", "record"}

(* Every variable holds what the file, its row, the call and the server can *)
(* hold; no call is ever at more than its last attempt.                     *)
TypeOK ==
  /\ size \in Size
  /\ local \in Contents
  /\ row \in {NoRow} \cup [id : Id, hash : Contents]
  /\ \A i \in Id : i \in Live =>
       /\ object[i].name \in Nat
       /\ object[i].bytes \in Contents
  /\ \A s \in Sid : session[s] \notin {None, Gone} => session[s] \in [Part -> Version \cup {None}]
  /\ call.step \in Steps
  /\ call.kind \in {"new", "reupload", "version", "fresh"}
  /\ call.hash \in Contents \cup {None}
  /\ call.attempt \in 1..Attempts
  /\ call.sid \in Sid \cup {None} /\ call.id \in Id \cup {None}
  /\ aside \subseteq Contents
  /\ due \in BOOLEAN

(* A file the client takes for synchronised is on the server as it is       *)
(* here, however often it was rewritten while it was sent.  The row's hash  *)
(* is the one push_local_file took before it sent anything.                 *)
AgreedIsShared ==
  (call.step = "idle" /\ row # NoRow /\ row.hash = local)
    => \E i \in Live : object[i].bytes = local

(* A session the client was told of is left open on the server, once the    *)
(* call that opened it is over, only if a request was lost and then every   *)
(* try of the abort as well (upload_file_chunked's abort).                  *)
KnownSessionClosed ==
  (/\ spent.losses <= Attempts
   /\ call.sid # None /\ call.step \notin {"read", "put", "complete", "abort"})
    => session[call.sid] = Gone

(* A file nobody rewrites while it is sent is one object on the server      *)
(* whenever the client has it tracked, even if one request or its answer    *)
(* was lost on the way (adopt_existing_file).                               *)
OneObject ==
  (call.step = "idle" /\ row # NoRow /\ spent.edits = 0 /\ spent.losses <= 1)
    => Cardinality(Live) = 1

(* In the end the file, its row and the server's object agree.              *)
Agreed ==
  /\ row # NoRow /\ row.id \in Live
  /\ row.hash = local /\ object[row.id].bytes = local
Settles == <>[]Agreed
=============================================================================
