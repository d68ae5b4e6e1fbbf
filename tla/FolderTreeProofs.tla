-------------------------- MODULE FolderTreeProofs --------------------------
(***************************************************************************)
(* What TLAPS proves of FolderTree for every set of folders, names and      *)
(* files and whatever the scenarios allow: the types; that no two rows      *)
(* claim one path; that the files stay where the user put them; and that    *)
(* the client of a user who does nothing writes nothing on the server.      *)
(***************************************************************************)
EXTENDS FolderTree, FiniteSetTheorems, SequenceTheorems, TLAPS

(* What is remembered of the behaviour changes nothing else.                *)
USE DEF past

Names == {name \in Seq(Name \cup {"(1)"}) : IsName(name)}
Dirs == Seq(Names)          \* with the sync directory itself
Paths == Dirs \ {Top}

-----------------------------------------------------------------------------
(* Names and paths.                                                         *)

(* A name a user gives is a name.                                           *)
LEMMA GivenNames == Given \subseteq Names
<1> SUFFICES ASSUME NEW n \in Name PROVE <<n>> \in Names
  BY DEF Given
<1>1. <<n>> \in Seq(Name \cup {"(1)"}) /\ IsName(<<n>>)
  BY DEF IsName
<1>. QED BY <1>1 DEF Names

(* The name a server appends "(1)" to stays a name.                         *)
LEMMA CopyNames == ASSUME NEW name \in Names PROVE Copy(name) \in Names
<1>1. name \in Seq(Name \cup {"(1)"}) /\ IsName(name)
  BY DEF Names
<1>2. Copy(name) \in Seq(Name \cup {"(1)"})
  BY <1>1 DEF Copy
<1>3. IsName(Copy(name))
  BY <1>1 DEF Copy, IsName
<1>. QED BY <1>2, <1>3 DEF Names

(* A path has the properties TypeOK asks of it.                             *)
LEMMA PathsArePaths == ASSUME NEW p \in Paths PROVE IsPath(p)
BY DEF Paths, Dirs, Names, IsPath, Top

(* The parent and the name of a path, and a path made of the two.           *)
LEMMA FrontAndLast ==
  ASSUME NEW p \in Paths
  PROVE  Front(p) \in Dirs /\ Last(p) \in Names
<1>1. Len(p) \in Nat \ {0} /\ p \in Seq(Names)
  BY DEF Paths, Dirs, Top
<1>. QED BY <1>1 DEF Front, Last, Dirs

(* A name under a directory is a path.                                      *)
LEMMA Joined ==
  ASSUME NEW p \in Dirs, NEW name \in Names
  PROVE  Append(p, name) \in Paths
<1>1. p \in Seq(Names)
  BY DEF Dirs
<1>2. Append(p, name) \in Seq(Names) /\ Len(Append(p, name)) = Len(p) + 1 /\ Len(p) \in Nat
  BY <1>1
<1>3. Append(p, name) # << >>
  BY <1>2
<1>. QED BY <1>2, <1>3 DEF Paths, Dirs, Top

(* What lies at or under a path is the path and what follows it.            *)
Behind(p, q) == SubSeq(q, Len(p) + 1, Len(q))

(* A path at or under p is p and what is behind it.                         *)
LEMMA UnderIsBehind ==
  ASSUME NEW p \in Dirs, NEW q \in Dirs, IsPrefix(p, q)
  PROVE  Behind(p, q) \in Dirs /\ q = p \o Behind(p, q)
<1>1. p \in Seq(Names) /\ q \in Seq(Names) /\ Len(p) \in Nat /\ Len(q) \in Nat
  BY DEF Dirs
<1>2. Len(p) <= Len(q) /\ p = SubSeq(q, 1, Len(p))
  BY <1>1, SubSeqFull DEF IsPrefix
<1>3. SubSeq(q, 1, Len(p)) \o SubSeq(q, Len(p) + 1, Len(q)) = SubSeq(q, 1, Len(q))
  <2>1. /\ 1 \in 1 .. Len(q) + 1 /\ Len(p) \in 1 - 1 .. Len(q)
        /\ Len(q) \in Len(p) .. Len(q)
    BY <1>1, <1>2
  <2>. QED BY <1>1, <2>1, ConcatAdjacentSubSeq
<1>4. q = p \o Behind(p, q)
  BY <1>1, <1>2, <1>3, SubSeqFull DEF Behind
<1>5. \A i \in Len(p) + 1 .. Len(q) : q[i] \in Names
  BY <1>1, ElementOfSeq
<1>6. Behind(p, q) \in Seq(Names)
  BY <1>1, <1>5, SubSeqProperties DEF Behind
<1>. QED BY <1>4, <1>6 DEF Dirs

(* What is put behind a path lies at or under it.                           *)
LEMMA BehindIsUnder ==
  ASSUME NEW p \in Dirs, NEW s \in Dirs
  PROVE  p \o s \in Dirs /\ IsPrefix(p, p \o s)
<1>1. p \in Seq(Names) /\ s \in Seq(Names) /\ Len(p) \in Nat /\ Len(s) \in Nat
  BY DEF Dirs
<1>2. /\ p \o s \in Seq(Names) /\ Len(p \o s) = Len(p) + Len(s)
      /\ \A k \in 1..Len(p) : (p \o s)[k] = p[k]
  BY <1>1, ConcatProperties
<1>3. SubSeq(p \o s, 1, Len(p)) = SubSeq(p, 1, Len(p))
  <2>1. CASE Len(p) = 0
    BY <1>1, <1>2, <2>1, SubSeqEmpty
  <2>2. CASE Len(p) # 0
    BY <1>1, <2>2, SubSeqOfConcat1
  <2>. QED BY <2>1, <2>2
<1>. QED BY <1>1, <1>2, <1>3 DEF Dirs, IsPrefix

(* Two things behind one path are two paths.                                *)
LEMMA SameStart ==
  ASSUME NEW p \in Dirs, NEW s \in Dirs, NEW t \in Dirs, p \o s = p \o t
  PROVE  s = t
BY ConcatSimplifications DEF Dirs

-----------------------------------------------------------------------------
(* The disk and the rows.                                                   *)

Heres == [dirs : SUBSET Paths, at : [Doc -> Dirs \cup {None}],
          frow : [Folder -> Paths \cup {None}], drow : [Doc -> Dirs \cup {None}]]

(* No two rows of a table name one path.                                    *)
Apart(rows) ==
  \A x, y \in DOMAIN rows : rows[x] # None /\ rows[x] = rows[y] => x = y

(* The sync directory is a directory, and no path.                          *)
LEMMA TopIsADir == Top \in Dirs
BY EmptySeq DEF Top, Dirs

(* A path that is moved along is a path again.                              *)
LEMMA ShiftedIsAPath ==
  ASSUME NEW from \in Dirs, NEW to \in Paths, NEW q \in Dirs \cup {None}
  PROVE  /\ Shifted(q, from, to) \in Dirs \cup {None}
         /\ q \in Paths \cup {None} => Shifted(q, from, to) \in Paths \cup {None}
         /\ q \in Paths => Shifted(q, from, to) \in Paths
<1>1. CASE At(from, q)
  <2>1. q \in Dirs /\ IsPrefix(from, q) /\ to \in Dirs /\ to # Top
    BY <1>1 DEF At, Paths
  <2>2. Shifted(q, from, to) = to \o Behind(from, q) /\ Behind(from, q) \in Dirs
    BY <1>1, <2>1, UnderIsBehind DEF Shifted, Behind
  <2>3. to \o Behind(from, q) \in Dirs
    BY <2>1, <2>2, BehindIsUnder
  <2>4. to \o Behind(from, q) # Top
    BY <2>1, <2>2, ConcatSimplifications DEF Dirs, Top
  <2>. QED BY <2>2, <2>3, <2>4 DEF Paths
<1>2. CASE ~At(from, q)
  BY <1>2 DEF Shifted
<1>. QED BY <1>1, <1>2

(* The directories above a path.                                            *)
LEMMA CreateDirsTyped ==
  ASSUME NEW ds \in SUBSET Paths, NEW p \in Dirs
  PROVE  CreateDirs(ds, p) \in SUBSET Paths
<1>1. p \in Seq(Names) /\ Len(p) \in Nat
  BY DEF Dirs
<1>2. ASSUME NEW n \in 1 .. Len(p) PROVE SubSeq(p, 1, n) \in Paths
  <2>1. \A k \in 1 .. n : p[k] \in Names
    BY <1>1, ElementOfSeq
  <2>2. SubSeq(p, 1, n) \in Seq(Names) /\ Len(SubSeq(p, 1, n)) = n
    BY <1>1, <2>1, SubSeqProperties
  <2>. QED BY <2>2 DEF Paths, Dirs, Top
<1>. QED BY <1>2 DEF CreateDirs

(* Rows that follow a directory are rows, and stay apart.                   *)
LEMMA ReparentedTyped ==
  ASSUME NEW from \in Paths, NEW to \in Paths, NEW X
  PROVE  /\ \A rows \in [X -> Dirs \cup {None}] :
              Reparented(rows, from, to) \in [X -> Dirs \cup {None}]
         /\ \A rows \in [X -> Paths \cup {None}] :
              Reparented(rows, from, to) \in [X -> Paths \cup {None}]
<1>1. from \in Dirs
  BY DEF Paths
<1>. QED BY <1>1, ShiftedIsAPath DEF Reparented, Paths

(* The rows at or under the destination are gone, and the moved ones keep   *)
(* what is behind them: two of them on one path were on one path before.    *)
LEMMA ReparentedApart ==
  ASSUME NEW from \in Paths, NEW to \in Paths, NEW X,
         NEW rows \in [X -> Paths \cup {None}], Apart(rows)
  PROVE  Apart(Reparented(rows, from, to))
<1>. DEFINE r == Reparented(rows, from, to)
<1>1. SUFFICES ASSUME NEW x \in X, NEW y \in X, r[x] # None, r[x] = r[y] PROVE x = y
  BY DEF Apart, Reparented
<1>2. ASSUME NEW z \in X, r[z] # None
      PROVE  /\ rows[z] # None /\ rows[z] \in Dirs /\ r[z] = Shifted(rows[z], from, to)
             /\ At(from, rows[z]) \/ ~IsPrefix(to, rows[z])
  BY <1>2 DEF Reparented, Shifted, At, Paths
<1>3. from \in Dirs /\ to \in Dirs
  BY DEF Paths
<1>4. ASSUME NEW z \in X, r[z] # None, At(from, rows[z])
      PROVE  /\ Behind(from, rows[z]) \in Dirs /\ rows[z] = from \o Behind(from, rows[z])
             /\ r[z] = to \o Behind(from, rows[z]) /\ IsPrefix(to, r[z])
  <2>1. /\ Behind(from, rows[z]) \in Dirs /\ rows[z] = from \o Behind(from, rows[z])
        /\ r[z] = to \o Behind(from, rows[z])
    BY <1>2, <1>3, <1>4, UnderIsBehind DEF At, Shifted, Behind
  <2>. QED BY <1>3, <2>1, BehindIsUnder
<1>5. ASSUME NEW z \in X, r[z] # None, ~At(from, rows[z])
      PROVE  r[z] = rows[z] /\ ~IsPrefix(to, r[z])
  BY <1>2, <1>5 DEF Shifted
<1>. HIDE DEF r
<1>6. r[y] # None
  BY <1>1
<1>7. CASE At(from, rows[x]) /\ At(from, rows[y])
  <2>1. Behind(from, rows[x]) = Behind(from, rows[y])
    <3>1. /\ Behind(from, rows[x]) \in Dirs /\ r[x] = to \o Behind(from, rows[x])
          /\ Behind(from, rows[y]) \in Dirs /\ r[y] = to \o Behind(from, rows[y])
      BY <1>1, <1>4, <1>6, <1>7
    <3>2. to \o Behind(from, rows[x]) = to \o Behind(from, rows[y])
      BY <1>1, <3>1
    <3>. HIDE DEF Behind
    <3>. QED BY <1>3, <3>1, <3>2, SameStart
  <2>. QED BY <1>1, <1>2, <1>4, <1>6, <1>7, <2>1 DEF Apart
<1>8. CASE ~At(from, rows[x]) /\ ~At(from, rows[y])
  BY <1>1, <1>2, <1>5, <1>6, <1>8 DEF Apart
<1>9. CASE At(from, rows[x]) # At(from, rows[y])
  BY <1>1, <1>4, <1>5, <1>6, <1>9 DEF At
<1>. QED BY <1>7, <1>8, <1>9 DEF At

(* Moving a directory.                                                      *)
LEMMA MovedTyped ==
  ASSUME NEW h \in Heres, NEW from \in Paths, NEW to \in Paths
  PROVE  Moved(h, from, to) \in Heres /\ Moved(h, from, to).frow = h.frow
<1>. DEFINE ds == {Shifted(q, from, to) : q \in CreateDirs(h.dirs, Front(to))}
            ps == [d \in Doc |-> Shifted(h.at[d], from, to)]
<1>1. from \in Dirs
  BY DEF Paths
<1>2. ds \in SUBSET Paths
  <2>1. CreateDirs(h.dirs, Front(to)) \in SUBSET Paths
    BY FrontAndLast, CreateDirsTyped DEF Heres
  <2>. QED BY <1>1, <2>1, ShiftedIsAPath DEF Paths
<1>3. ps \in [Doc -> Dirs \cup {None}]
  BY <1>1, ShiftedIsAPath DEF Heres
<1>4. CASE from \in h.dirs
  <2>1. Moved(h, from, to) = [h EXCEPT !.dirs = ds, !.at = ps]
    BY <1>4 DEF Moved
  <2>. HIDE DEF ds, ps
  <2>. QED BY <1>2, <1>3, <2>1 DEF Heres
<1>5. CASE from \notin h.dirs
  BY <1>5 DEF Moved
<1>. QED BY <1>4, <1>5

(* Recording a folder: no row is left beside it on its path.                *)
LEMMA RecordedTyped ==
  ASSUME NEW h \in Heres, NEW i \in Folder, NEW p \in Paths
  PROVE  /\ Recorded(h, i, p) \in Heres
         /\ Apart(h.frow) => Apart(Recorded(h, i, p).frow)
<1>. DEFINE from == h.frow[i]
            r == IF MustMove(h, i, p) THEN Relocated(h, from, p) ELSE h
            fr == [j \in Folder |-> IF j = i THEN p
                                    ELSE IF r.frow[j] = p THEN None ELSE r.frow[j]]
<1>1. r \in Heres /\ (Apart(h.frow) => Apart(r.frow))
  <2>1. CASE MustMove(h, i, p)
    <3>1. from \in Paths
      BY <2>1 DEF MustMove, Heres
    <3>. HIDE DEF from
    <3>2. Moved(h, from, p) \in Heres /\ Moved(h, from, p).frow = h.frow
      BY <3>1, MovedTyped
    <3>. DEFINE m == Moved(h, from, p)
    <3>3. r = [m EXCEPT !.frow = Reparented(@, from, p), !.drow = Reparented(@, from, p)]
      BY <2>1 DEF Relocated, from
    <3>4. /\ Reparented(m.frow, from, p) \in [Folder -> Paths \cup {None}]
          /\ Reparented(m.drow, from, p) \in [Doc -> Dirs \cup {None}]
      BY <3>1, <3>2, ReparentedTyped DEF Heres
    <3>5. Apart(m.frow) => Apart(Reparented(m.frow, from, p))
      BY <3>1, <3>2, ReparentedApart DEF Heres
    <3>. HIDE DEF m, r
    <3>6. r \in Heres /\ r.frow = Reparented(m.frow, from, p)
      BY <3>2, <3>3, <3>4 DEF Heres, m
    <3>. QED BY <3>2, <3>5, <3>6 DEF m
  <2>2. CASE ~MustMove(h, i, p)
    BY <2>2
  <2>. QED BY <2>1, <2>2
<1>2. Recorded(h, i, p) = [r EXCEPT !.dirs = CreateDirs(@, p), !.frow = fr]
  BY DEF Recorded
<1>. HIDE DEF r
<1>3. CreateDirs(r.dirs, p) \in SUBSET Paths
  BY <1>1, CreateDirsTyped DEF Heres, Paths
<1>4. fr \in [Folder -> Paths \cup {None}]
  BY <1>1 DEF Heres
<1>5. Apart(r.frow) => Apart(fr)
  BY <1>1 DEF Apart, Heres
<1>. HIDE DEF fr
<1>. QED BY <1>1, <1>2, <1>3, <1>4, <1>5 DEF Heres

-----------------------------------------------------------------------------
(* The typed state.                                                         *)

Nodes == [state : {"absent", "live", "deleted"}, parent : Folder \cup {Root},
          name : Names \cup {None}]
News == {"none", "fresh", "fetched"}
Spent == [scenario : Scenarios, remote : Nat, user : Nat, removals : Nat,
          failures : Nat, stops : Nat]

(* A folder the server ever made has a name, and was made in one.           *)
Ever(f) == f = Root \/ node[f].state # "absent"
ServerOK ==
  /\ node \in [Folder -> Nodes]
  /\ \A i \in Folder : Ever(i) => node[i].name \in Names /\ Ever(node[i].parent)
  /\ home \in [Doc -> Folder \cup {Root, None}]
  /\ news \in [Item -> News]
LocalOK ==
  /\ dirs \subseteq Paths
  /\ at \in [Doc -> Dirs \cup {None}] /\ drow \in [Doc -> Dirs \cup {None}]
  /\ frow \in [Folder -> Paths \cup {None}]
(* A fetched item was there when it was fetched.                            *)
SnapOK ==
  /\ \A i \in todo \cap Folder :
       snap[i].parent \in Folder \cup {Root} /\ snap[i].name \in Names
  /\ \A d \in todo \cap Doc : snap[d].parent \in Folder \cup {Root}
PassOK ==
  /\ phase \in {"idle", "verify", "full", "push", "files"}
  /\ fresh \in BOOLEAN /\ held \in BOOLEAN
  /\ todo \subseteq Item /\ gone \subseteq Item /\ mkdirs \subseteq Paths
  /\ Applying => SnapOK
CountOK == spent \in Spent /\ astray \in BOOLEAN

Typed == ServerOK /\ LocalOK /\ PassOK /\ CountOK
IInv == Typed /\ Apart(frow)

(* Disk and rows in one record, and back.                                   *)
LEMMA HereTyped ==
  /\ LocalOK => Here \in Heres /\ Here.frow = frow /\ Here.dirs = dirs
  /\ \A h \in Heres : Becomes(h) =>
       LocalOK' /\ frow' = h.frow
BY DEF LocalOK, Here, Heres, Becomes

(* record_folder, with the disk and the rows as they are.                   *)
LEMMA Recording ==
  ASSUME LocalOK, Apart(frow), NEW i \in Folder, NEW p \in Paths,
         Becomes(Recorded(Here, i, p))
  PROVE  LocalOK' /\ Apart(frow)'
<1>1. Here \in Heres /\ Here.frow = frow
  BY HereTyped
<1>2. Recorded(Here, i, p) \in Heres /\ Apart(Recorded(Here, i, p).frow)
  BY <1>1, RecordedTyped
<1>. QED BY <1>2, HereTyped

(* What a step spends.                                                      *)
LEMMA Spending ==
  ASSUME CountOK, \/ UNCHANGED spent
                  \/ \E kind \in {"remote", "user", "removals", "failures", "stops"} :
                       Spend(kind)
  PROVE  spent' \in Spent
BY DEF CountOK, Spend, Spent

(* What the feed tells.                                                     *)
LEMMA Telling ==
  ASSUME ServerOK, NEW items, Told(items)
  PROVE  news' \in [Item -> News]
BY DEF ServerOK, Told, News

(* A folder is made, moved or renamed under one that was ever made.         *)
LEMMA Giving ==
  ASSUME ServerOK, NEW i \in Folder, NEW f \in Folder \cup {Root}, Exists(f),
         NEW name \in Names, NEW st \in {"live", "deleted"},
         node' = [node EXCEPT ![i] = [state |-> st, parent |-> f, name |-> name]],
         UNCHANGED home, news' \in [Item -> News]
  PROVE  ServerOK'
<1>1. node' \in [Folder -> Nodes]
  BY DEF ServerOK, Nodes
<1>2. \A j \in Folder \cup {Root} : Ever(j) => Ever(j)'
  BY DEF ServerOK, Nodes, Ever
<1>3. Ever(f)'
  BY <1>2 DEF Exists, Live, Ever
<1>4. ASSUME NEW j \in Folder, Ever(j)' PROVE node'[j].name \in Names /\ Ever(node[j].parent)'
  <2>1. CASE j = i
    BY <1>3, <2>1 DEF ServerOK, Ever
  <2>2. CASE j # i
    <3>1. node'[j] = node[j] /\ Ever(j)
      BY <1>4, <2>2 DEF ServerOK, Ever
    <3>2. node[j].name \in Names /\ Ever(node[j].parent) /\ node[j].parent \in Folder \cup {Root}
      BY <3>1 DEF ServerOK, Nodes
    <3>. QED BY <1>2, <3>1, <3>2 DEF Ever
  <2>. QED BY <2>1, <2>2
<1>. QED BY <1>1, <1>4 DEF ServerOK

(* A pass comes to its end.                                                 *)
LEMMA Resting ==
  ASSUME ServerOK, Rest, news' \in {Unread, news}
  PROVE  /\ news' \in [Item -> News]
         /\ fresh' \in BOOLEAN => PassOK'
BY DEF ServerOK, Rest, PassOK, Applying, Unread, News

(* The rest of a pass has no more to do than it had.                        *)
LEMMA Going ==
  ASSUME PassOK, UNCHANGED <<phase, fresh, snap>>, todo' \subseteq todo,
         gone' \subseteq gone, mkdirs' \subseteq mkdirs, held' \in {held, TRUE}
  PROVE  PassOK'
BY DEF PassOK, SnapOK, Applying

(* Where a fetched item goes.                                               *)
LEMMA Placing ==
  ASSUME Typed, NEW f \in Folder \cup {Root}, Known(f)
  PROVE  PathOf(f) \in Dirs
BY TopIsADir DEF Typed, LocalOK, Known, PathOf, Paths

(* The path a fetched folder is placed at.                                  *)
LEMMA Targeting ==
  ASSUME Typed, Applying, NEW i \in Folder, IsNext(i), Known(snap[i].parent)
  PROVE  Target(i) \in Paths
<1>1. snap[i].parent \in Folder \cup {Root} /\ snap[i].name \in Names
  BY DEF Typed, PassOK, SnapOK, IsNext
<1>. QED BY <1>1, Placing, Joined DEF Target

(* The folder a directory is made in.                                       *)
LEMMA ParentTyped ==
  ASSUME NEW p
  PROVE  FolderAt(p) \in Folder \cup {Root}
BY DEF FolderAt, Tracked

-----------------------------------------------------------------------------
(* Every step keeps the invariant.                                          *)

(* Other clients change the server only.                                    *)
LEMMA OthersKeep ==
  ASSUME IInv, OtherClients \/ OtherClientsFiles
  PROVE  IInv'
<1>. USE DEF IInv, Typed
<1>1. /\ UNCHANGED <<local, pass>> /\ astray' \in BOOLEAN
      /\ Spend("remote") /\ \E items : Told(items)
  BY DEF OtherClients, OtherClientsFiles, RemoteCreate, RemoteMove, RemoteDelete, RemotePut,
         CountOK
<1>2. LocalOK' /\ PassOK' /\ Apart(frow)' /\ CountOK'
  <2>1. spent' \in Spent
    BY <1>1, Spending
  <2>. QED BY <1>1, <2>1 DEF LocalOK, PassOK, SnapOK, Applying, Apart, CountOK, local, pass
<1>3. news' \in [Item -> News]
  BY <1>1, Telling
<1>4. ASSUME NEW i \in Folder, NEW f \in Folder \cup {Root}, NEW name \in Given,
             RemoteCreate(i, f, name) \/ RemoteMove(i, f, name)
      PROVE  ServerOK'
  BY <1>3, <1>4, Giving, GivenNames DEF RemoteCreate, RemoteMove, Give
<1>5. ASSUME NEW i \in Folder, RemoteDelete(i) PROVE ServerOK'
  <2>1. Contents(i) \cap Folder \subseteq Live
    BY ItemAssumption DEF Contents
  <2>2. \A j \in Folder : node'[j] = IF j \in Contents(i) THEN [node[j] EXCEPT !.state = "deleted"]
                                     ELSE node[j]
    BY <1>5 DEF RemoteDelete
  <2>3. ASSUME NEW j \in Folder
        PROVE  /\ node'[j] \in Nodes /\ (Ever(j)' <=> Ever(j))
               /\ node'[j].name = node[j].name /\ node'[j].parent = node[j].parent
    BY <2>1, <2>2 DEF ServerOK, Nodes, Live, Ever
  <2>4. node' \in [Folder -> Nodes]
    BY <1>5, <2>3 DEF RemoteDelete
  <2>6. \A j \in Folder : Ever(j)' => node'[j].name \in Names /\ Ever(node[j].parent)'
    BY <2>3 DEF ServerOK, Nodes, Ever
  <2>5. home' \in [Doc -> Folder \cup {Root, None}]
    BY <1>5 DEF RemoteDelete, ServerOK
  <2>. QED BY <1>3, <2>4, <2>5, <2>6 DEF ServerOK
<1>6. ASSUME NEW d \in Doc, NEW f \in Folder \cup {Root}, RemotePut(d, f) PROVE ServerOK'
  BY <1>3, <1>6 DEF RemotePut, ServerOK, Ever
<1>7. ServerOK'
  BY <1>4, <1>5, <1>6 DEF OtherClients, OtherClientsFiles
<1>. QED BY <1>2, <1>7

(* The user changes the disk only.                                          *)
LEMMA UserKeeps ==
  ASSUME IInv, User
  PROVE  IInv'
<1>. USE DEF IInv, Typed
<1>1. /\ UNCHANGED <<server, frow, drow, pass, astray>>
      /\ Spend("user") \/ Spend("removals")
  BY DEF User, UserMkdir, UserPut, UserRemove
<1>2. ServerOK' /\ PassOK' /\ Apart(frow)' /\ CountOK'
  <2>1. spent' \in Spent
    BY <1>1, Spending
  <2>. QED BY <1>1, <2>1 DEF ServerOK, Ever, PassOK, SnapOK, Applying, Apart, CountOK, server, pass
<1>3. dirs' \subseteq Paths /\ at' \in [Doc -> Dirs \cup {None}]
  <2>1. PICK p \in dirs \cup {Top} :
          \/ \E n \in Given : UserMkdir(p, n)
          \/ \E d \in Doc : UserPut(d, p)
          \/ UserRemove(p)
    BY DEF User
  <2>2. p \in Dirs
    BY TopIsADir DEF LocalOK, Paths
  <2>3. CASE \E n \in Given : UserMkdir(p, n)
    BY <2>2, <2>3, Joined, GivenNames DEF UserMkdir, LocalOK
  <2>4. CASE \E d \in Doc : UserPut(d, p)
    BY <2>2, <2>4 DEF UserPut, LocalOK
  <2>5. CASE UserRemove(p)
    BY <2>5 DEF UserRemove, LocalOK
  <2>. QED BY <2>1, <2>3, <2>4, <2>5
<1>. QED BY <1>1, <1>2, <1>3 DEF LocalOK

(* The process ends, also in the middle of relocate_local_folder: with no   *)
(* row shifted, or with the folder rows shifted.                            *)
LEMMA AccidentKeeps ==
  ASSUME IInv, Accident
  PROVE  IInv'
<1>. USE DEF IInv, Typed
<1>1. /\ UNCHANGED <<node, home, astray>> /\ Spend("stops") /\ Rest /\ fresh' = TRUE
      /\ news' = Unread
  BY DEF Accident, Stop, DieMoving
<1>2. ServerOK' /\ PassOK' /\ CountOK'
  <2>1. spent' \in Spent
    BY <1>1, Spending
  <2>. QED BY <1>1, <2>1, Resting DEF ServerOK, Ever, CountOK
<1>3. CASE Stop
  BY <1>2, <1>3 DEF Stop, LocalOK, Apart, local
<1>4. ASSUME NEW i \in Folder, DieMoving(i)
      PROVE  LocalOK' /\ Apart(frow)'
  <2>. DEFINE from == frow[i]
              p == Target(i)
              m == Moved(Here, from, p)
              r == [m EXCEPT !.frow = Reparented(@, from, p)]
  <2>1. /\ Applying /\ IsNext(i) /\ Known(snap[i].parent) /\ MustMove(Here, i, p)
        /\ Becomes(m) \/ Becomes(r)
    BY <1>4 DEF DieMoving
  <2>2. p \in Paths /\ from \in Paths /\ Here \in Heres /\ Here.frow = frow
    BY <2>1, Targeting, HereTyped DEF MustMove, LocalOK
  <2>. HIDE DEF p, from
  <2>3. m \in Heres /\ m.frow = frow
    BY <2>2, MovedTyped
  <2>4. Reparented(frow, from, p) \in [Folder -> Paths \cup {None}]
        /\ Apart(Reparented(frow, from, p))
    BY <2>2, ReparentedTyped, ReparentedApart DEF LocalOK
  <2>. HIDE DEF m
  <2>5. r \in Heres /\ r.frow = Reparented(frow, from, p)
    BY <2>3, <2>4 DEF Heres
  <2>. HIDE DEF r
  <2>. QED BY <2>1, <2>3, <2>4, <2>5, HereTyped
<1>. QED BY <1>2, <1>3, <1>4 DEF Accident

(* A pass begins: what it fetches is there.                                 *)
LEMMA StartKeeps ==
  ASSUME IInv, StartVerify \/ StartFull
  PROVE  IInv'
<1>. USE DEF IInv, Typed
<1>1. PICK items, removed :
        /\ items \subseteq Everything /\ removed \subseteq Item /\ Fetch(items, removed)
        /\ phase' \in {"verify", "full"} /\ news' \in [Item -> News]
  <2>1. CASE StartVerify
    BY <2>1 DEF StartVerify, ServerOK
  <2>2. CASE StartFull
    <3>. DEFINE changed == {x \in Item : news[x] # "none"}
    <3>1. news' \in [Item -> News]
      BY <2>2 DEF StartFull, ServerOK, News
    <3>2. Fetch(changed \cap Everything, changed \ Everything) /\ phase' = "full"
      BY <2>2 DEF StartFull
    <3>. QED BY <3>1, <3>2
  <2>. QED BY <2>1, <2>2
<1>2. /\ fresh' = FALSE /\ todo' = items /\ gone' = removed
      /\ UNCHANGED <<node, home, local, mkdirs, held, spent, astray>>
      /\ snap' = [x \in Item |-> IF x \notin items THEN Nothing
                                 ELSE IF x \in Folder THEN node[x]
                                 ELSE [Nothing EXCEPT !.parent = home[x]]]
  BY <1>1 DEF Fetch
<1>3. SnapOK'
  <2>1. ASSUME NEW i \in items \cap Folder
        PROVE  snap'[i].parent \in Folder \cup {Root} /\ snap'[i].name \in Names
    <3>1. i \in Live /\ snap'[i] = node[i]
      BY <1>1, <1>2, ItemAssumption DEF Everything, Item
    <3>. QED BY <3>1 DEF ServerOK, Nodes, Live, Ever
  <2>2. ASSUME NEW d \in items \cap Doc
        PROVE  snap'[d].parent \in Folder \cup {Root}
    <3>1. home[d] \in Folder \cup {Root}
      BY <1>1, ItemAssumption DEF Everything, ServerOK, Live
    <3>2. snap'[d] = [Nothing EXCEPT !.parent = home[d]]
      BY <1>2, ItemAssumption DEF Item
    <3>. QED BY <3>1, <3>2 DEF Nothing
  <2>. QED BY <1>2, <2>1, <2>2 DEF SnapOK
<1>4. PassOK'
  BY <1>1, <1>2, <1>3 DEF PassOK, Everything, Item, Live
<1>5. ServerOK' /\ LocalOK' /\ CountOK' /\ Apart(frow)'
  BY <1>1, <1>2 DEF ServerOK, Ever, LocalOK, CountOK, Apart, local
<1>. QED BY <1>4, <1>5

(* The fetched folders: placed, refused, failed or removed.                 *)
LEMMA FoldersKeep ==
  ASSUME IInv, NEW i \in Folder,
         PlaceFolder(i) \/ RefuseFolder(i) \/ FailFolder(i) \/ RemoveFolder(i)
  PROVE  IInv'
<1>. USE DEF IInv, Typed
<1>1. /\ UNCHANGED <<node, home, spent, astray>> /\ ServerOK' /\ CountOK' /\ PassOK'
  <2>1. CASE FailFolder(i)
    <3>1. Rest /\ news' = Unread /\ UNCHANGED <<fresh, node, home, spent, astray>>
      BY <2>1 DEF FailFolder, Abort
    <3>2. news' \in [Item -> News] /\ (fresh' \in BOOLEAN => PassOK')
      BY <3>1, Resting
    <3>. QED BY <3>1, <3>2 DEF ServerOK, Ever, CountOK, PassOK
  <2>2. CASE PlaceFolder(i) \/ RefuseFolder(i) \/ RemoveFolder(i)
    <3>1. /\ Unchanging /\ todo' \subseteq todo /\ gone' \subseteq gone
          /\ held' \in {held, TRUE}
      BY <2>2 DEF PlaceFolder, RefuseFolder, RemoveFolder, Placed, Trouble
    <3>2. PassOK'
      BY <3>1, Going DEF Unchanging
    <3>. QED BY <3>1, <3>2 DEF Unchanging, server, ServerOK, Ever, CountOK
  <2>. QED BY <2>1, <2>2
<1>2. LocalOK' /\ Apart(frow)'
  <2>1. CASE PlaceFolder(i)
    BY <2>1, Targeting, Recording DEF PlaceFolder
  <2>2. CASE RefuseFolder(i)
    BY <2>2 DEF RefuseFolder, local, LocalOK, Apart
  <2>3. CASE FailFolder(i)
    BY <2>3 DEF FailFolder, LocalOK, Apart
  <2>4. CASE RemoveFolder(i)
    BY <2>4 DEF RemoveFolder, LocalOK, Apart
  <2>. QED BY <2>1, <2>2, <2>3, <2>4
<1>. QED BY <1>1, <1>2

(* The fetched files: placed or removed.                                    *)
LEMMA DocsKeep ==
  ASSUME IInv, NEW d \in Doc, PlaceDoc(d) \/ RemoveDoc(d)
  PROVE  IInv'
<1>. USE DEF IInv, Typed
<1>1. /\ Unchanging /\ todo' \subseteq todo /\ gone' \subseteq gone /\ UNCHANGED <<frow, held>>
  BY DEF PlaceDoc, RemoveDoc, Placed
<1>2. ServerOK' /\ CountOK' /\ PassOK' /\ Apart(frow)'
  <2>1. PassOK'
    BY <1>1, Going DEF Unchanging
  <2>. QED BY <1>1, <2>1 DEF Unchanging, server, ServerOK, Ever, CountOK, Apart
<1>3. CASE PlaceDoc(d)
  <2>1. PathOf(snap[d].parent) \in Dirs
    BY <1>3, Placing DEF PlaceDoc, PassOK, SnapOK
  <2>2. CreateDirs(dirs, PathOf(snap[d].parent)) \in SUBSET Paths
    BY <2>1, CreateDirsTyped DEF LocalOK
  <2>. QED BY <1>2, <1>3, <2>1, <2>2 DEF PlaceDoc, LocalOK
<1>4. CASE RemoveDoc(d)
  BY <1>2, <1>4 DEF RemoveDoc, LocalOK
<1>. QED BY <1>3, <1>4

(* Every ancestor asked for was made once, and so has a name.               *)
LEMMA AskedEver ==
  ASSUME ServerOK, NEW f \in Live, NEW g \in Asked(f)
  PROVE  Ever(g)
<1>. DEFINE S == {h \in Folder : Ever(h)}
<1>1. f \in S
  BY DEF Live, Ever
<1>2. \A h \in S : Known(node[h].parent) \/ node[h].parent \in S
  BY DEF ServerOK, Nodes, Known
<1>3. S \in SUBSET Folder
  OBVIOUS
<1>. QED BY <1>1, <1>2, <1>3 DEF Asked

(* A parent no row has is asked for and recorded, or its item skipped.      *)
LEMMA ParentsKeep ==
  ASSUME IInv, NEW x \in Item, ResolveParent(x) \/ SkipItem(x)
  PROVE  IInv'
<1>. USE DEF IInv, Typed
<1>1. /\ UNCHANGED <<server, phase, fresh, snap, mkdirs, astray>> /\ todo' \subseteq todo
      /\ gone' \subseteq gone /\ held' \in {held, TRUE}
      /\ UNCHANGED spent \/ Spend("failures")
  BY DEF ResolveParent, SkipItem, Unchanging, Placed, Trouble
<1>2. ServerOK' /\ CountOK' /\ PassOK'
  <2>1. PassOK' /\ spent' \in Spent
    BY <1>1, Going, Spending
  <2>. QED BY <1>1, <2>1 DEF server, ServerOK, Ever, CountOK
<1>3. CASE ResolveParent(x)
  <2>1. PICK f \in Asked(snap[x].parent) :
          /\ Known(node[f].parent)
          /\ Becomes(Recorded(Here, f, Append(PathOf(node[f].parent), node[f].name)))
    BY <1>3 DEF ResolveParent
  <2>2. f \in Folder /\ Ever(f)
    BY <1>3, <2>1, AskedEver DEF ResolveParent, Asked
  <2>3. node[f].parent \in Folder \cup {Root} /\ node[f].name \in Names
    BY <2>2 DEF ServerOK, Nodes
  <2>4. Append(PathOf(node[f].parent), node[f].name) \in Paths
    BY <2>1, <2>3, Placing, Joined
  <2>. QED BY <1>2, <2>1, <2>2, <2>4, Recording
<1>4. CASE SkipItem(x)
  BY <1>2, <1>4 DEF SkipItem, local, LocalOK, Apart
<1>. QED BY <1>3, <1>4

(* A directory of the disk that no row has.                                 *)
LEMMA NewDirTyped ==
  ASSUME Typed, NEW p \in mkdirs
  PROVE  /\ p \in Paths /\ Parent(p) \in Folder \cup {Root}
         /\ Last(p) \in Names /\ Copy(Last(p)) \in Names
BY FrontAndLast, CopyNames, ParentTyped DEF Typed, PassOK, Parent

(* A directory of the disk is created on the server, adopted or given up.   *)
LEMMA DirsKeep ==
  ASSUME IInv, NEW p \in mkdirs,
         \/ DirFails(p)
         \/ \E i \in Folder : \/ CreateFolder(i, p)
                              \/ \E e \in Folder : AdoptFolder(i, e, p) \/ CreateBeside(i, e, p)
                                                     \/ AdoptFails(i, e, p)
  PROVE  IInv'
<1>. USE DEF IInv, Typed
<1>1. /\ p \in Paths /\ Parent(p) \in Folder \cup {Root}
      /\ Last(p) \in Names /\ Copy(Last(p)) \in Names
  BY NewDirTyped
<1>2. /\ Made(p) /\ held' \in {held, TRUE}
      /\ UNCHANGED astray \/ Strays(Front(p))
      /\ UNCHANGED spent \/ Spend("failures")
  BY DEF DirFails, CreateFolder, AdoptFolder, CreateBeside, AdoptFails, Trouble
<1>3. PassOK' /\ CountOK' /\ UNCHANGED home
  <2>1. PassOK'
    BY <1>2, Going DEF Made
  <2>2. spent' \in Spent
    BY <1>2, Spending
  <2>3. astray' \in BOOLEAN
    BY <1>2 DEF Strays, CountOK
  <2>. QED BY <1>2, <2>1, <2>2, <2>3 DEF Made, CountOK
<1>4. CASE DirFails(p)
  BY <1>3, <1>4 DEF DirFails, local, ServerOK, Ever, LocalOK, Apart
<1>5. ASSUME NEW i \in Folder, CreateFolder(i, p) PROVE IInv'
  <2>1. news' \in [Item -> News]
    BY <1>5, Telling DEF CreateFolder
  <2>2. ServerOK'
    BY <1>1, <1>3, <1>5, <2>1, Giving DEF CreateFolder, Give
  <2>3. LocalOK' /\ Apart(frow)'
    BY <1>1, <1>5, Recording DEF CreateFolder
  <2>. QED BY <1>3, <2>2, <2>3
<1>6. ASSUME NEW i \in Folder, NEW e \in Folder, AdoptFolder(i, e, p) PROVE IInv'
  <2>1. news' \in [Item -> News]
    BY <1>6, Telling DEF AdoptFolder
  <2>2. ServerOK'
    BY <1>1, <1>3, <1>6, <2>1, Giving DEF AdoptFolder
  <2>3. LocalOK' /\ Apart(frow)'
    BY <1>1, <1>6, Recording DEF AdoptFolder
  <2>. QED BY <1>3, <2>2, <2>3
<1>7. ASSUME NEW i \in Folder, NEW e \in Folder, CreateBeside(i, e, p) PROVE IInv'
  <2>1. news' \in [Item -> News]
    BY <1>7, Telling DEF CreateBeside
  <2>2. ServerOK'
    BY <1>1, <1>3, <1>7, <2>1, Giving DEF CreateBeside, Give
  <2>3. LocalOK' /\ Apart(frow)'
    BY <1>1, <1>7, Recording DEF CreateBeside
  <2>. QED BY <1>3, <2>2, <2>3
<1>8. ASSUME NEW i \in Folder, NEW e \in Folder, AdoptFails(i, e, p) PROVE IInv'
  <2>1. news' \in [Item -> News]
    BY <1>8, Telling DEF AdoptFails
  <2>2. ServerOK'
    BY <1>1, <1>3, <1>8, <2>1, Giving DEF AdoptFails, Give
  <2>. QED BY <1>3, <1>8, <2>2 DEF AdoptFails, local, LocalOK, Apart
<1>. QED BY <1>4, <1>5, <1>6, <1>7, <1>8

(* The files of the disk: uploaded, given up or deleted on the server.      *)
LEMMA FilesKeep ==
  ASSUME IInv, NEW d \in Doc, PushDoc(d) \/ PushFails(d) \/ DeleteMissing(d)
  PROVE  IInv'
<1>. USE DEF IInv, Typed
<1>1. /\ UNCHANGED <<node, dirs, at, frow, phase, fresh, snap, mkdirs, spent>>
      /\ UNCHANGED astray \/ Strays(at[d])
      /\ todo' \subseteq todo /\ gone' \subseteq gone /\ held' \in {held, TRUE}
  BY DEF PushDoc, PushFails, DeleteMissing, Placed, Trouble, server, local
<1>2. CountOK' /\ PassOK' /\ Apart(frow)'
  <2>1. PassOK'
    BY <1>1, Going
  <2>. QED BY <1>1, <2>1 DEF CountOK, Strays, Apart
<1>3. /\ news' \in [Item -> News] /\ home' \in [Doc -> Folder \cup {Root, None}]
      /\ drow' \in [Doc -> Dirs \cup {None}]
  <2>1. CASE PushDoc(d)
    <3>1. FolderAt(at[d]) \in Folder \cup {Root}
      BY ParentTyped
    <3>2. /\ home' = [home EXCEPT ![d] = FolderAt(at[d])]
          /\ UNCHANGED news \/ Told({d})
          /\ drow' = [drow EXCEPT ![d] = at[d]]
      BY <2>1 DEF PushDoc
    <3>3. news' \in [Item -> News]
      BY <3>2, Telling DEF ServerOK
    <3>. QED BY <3>1, <3>2, <3>3 DEF ServerOK, LocalOK
  <2>2. CASE PushFails(d)
    BY <2>2 DEF PushFails, server, local, ServerOK, LocalOK
  <2>3. CASE DeleteMissing(d)
    <3>1. news' \in [Item -> News]
      BY <2>3, Telling DEF DeleteMissing
    <3>. QED BY <2>3, <3>1 DEF DeleteMissing, ServerOK, LocalOK
  <2>. QED BY <2>1, <2>2, <2>3
<1>. QED BY <1>1, <1>2, <1>3 DEF ServerOK, Ever, LocalOK

(* A pass goes from one phase to the next, or ends.                         *)
LEMMA PhasesKeep ==
  ASSUME IInv, EndVerify \/ Scan \/ ScanFiles \/ EndPass
  PROVE  IInv'
<1>. USE DEF IInv, Typed
<1>1. UNCHANGED <<node, home, local, fresh, spent, astray>>
  BY DEF EndVerify, Scan, ScanFiles, EndPass, server
<1>2. LocalOK' /\ CountOK' /\ Apart(frow)'
  BY <1>1 DEF local, LocalOK, CountOK, Apart
<1>3. news' \in [Item -> News] /\ PassOK'
  <2>1. CASE EndVerify
    BY <1>1, <2>1, Resting DEF EndVerify, server, PassOK
  <2>2. CASE Scan
    BY <2>2 DEF Scan, server, ServerOK, LocalOK, PassOK, Applying
  <2>3. CASE ScanFiles
    BY <2>3 DEF ScanFiles, server, ServerOK, PassOK, Applying, Item
  <2>4. CASE EndPass
    <3>1. fresh' \in BOOLEAN /\ Rest
      BY <1>1, <2>4 DEF EndPass, PassOK
    <3>2. PassOK'
      BY <3>1 DEF Rest, PassOK, Applying
    <3>3. news' \in [Item -> News]
      BY <2>4 DEF EndPass, Unread, News, ServerOK
    <3>. QED BY <3>2, <3>3
  <2>. QED BY <2>1, <2>2, <2>3, <2>4
<1>. QED BY <1>1, <1>2, <1>3 DEF ServerOK, Ever

-----------------------------------------------------------------------------
(* The theorems.                                                            *)

(* IInv is inductive.                                                       *)
LEMMA StepKeeps ==
  ASSUME IInv, [Next]_vars
  PROVE  IInv'
<1>1. CASE OtherClients \/ OtherClientsFiles
  BY <1>1, OthersKeep
<1>2. CASE User
  BY <1>2, UserKeeps
<1>3. CASE Accident
  BY <1>3, AccidentKeeps
<1>4. CASE StartVerify \/ StartFull
  BY <1>4, StartKeeps
<1>5. CASE Work
  BY <1>5, FoldersKeep, DocsKeep, ParentsKeep, DirsKeep, FilesKeep, PhasesKeep DEF Work
<1>6. CASE UNCHANGED vars
  BY <1>6 DEF vars, server, local, pass, IInv, Typed, ServerOK, Ever, LocalOK, PassOK, SnapOK,
              Applying, CountOK, Apart
<1>. QED BY <1>1, <1>2, <1>3, <1>4, <1>5, <1>6 DEF Next

(* It holds at the start, where one row at most is in step already.         *)
LEMMA Start == Init => IInv
<1>. SUFFICES ASSUME Init PROVE IInv
  OBVIOUS
<1>1. PICK s \in Scenarios, name \in Given, other \in Given :
        LET old == {i \in Folder : s.instep /\ \A j \in Folder : i <= j}
            made == IF s.made THEN {<<other>>, <<other, name>>} ELSE {}
        IN /\ name # other
           /\ spent = [scenario |-> s, remote |-> 0, user |-> Cardinality(made),
                       removals |-> 0, failures |-> 0, stops |-> 0]
           /\ node = [i \in Folder |->
                IF i \in old THEN [state |-> "live", parent |-> Root, name |-> name]
                ELSE Nothing]
           /\ frow = [i \in Folder |-> IF i \in old THEN <<name>> ELSE None]
           /\ dirs = {<<name>> : i \in old} \cup made
  BY DEF Init
<1>. DEFINE old == {i \in Folder : s.instep /\ \A j \in Folder : i <= j}
            made == IF s.made THEN {<<other>>, <<other, name>>} ELSE {}
<1>2. name \in Names /\ other \in Names
  BY GivenNames
<1>3. <<name>> \in Paths /\ <<other>> \in Paths /\ <<other, name>> \in Paths
  BY <1>2 DEF Paths, Dirs, Top
<1>4. Cardinality(made) \in Nat
  <2>1. IsFiniteSet({}) /\ IsFiniteSet({<<other>>})
    BY FS_EmptySet, FS_Singleton
  <2>2. IsFiniteSet({<<other>>} \cup {<<other, name>>})
    BY <2>1, FS_AddElement
  <2>3. made \in {{}, {<<other>>} \cup {<<other, name>>}}
    OBVIOUS
  <2>. HIDE DEF made
  <2>. QED BY <2>1, <2>2, <2>3, FS_CardinalityType
<1>5. \A i, j \in old : i = j
  BY FolderAssumption
<1>6. ServerOK
  <2>1. node = [i \in Folder |->
          IF i \in old THEN [state |-> "live", parent |-> Root, name |-> name] ELSE Nothing]
    BY <1>1
  <2>. HIDE DEF old
  <2>2. /\ node \in [Folder -> Nodes]
        /\ \A i \in Folder : Ever(i) => node[i].name \in Names /\ Ever(node[i].parent)
    BY <1>2, <2>1, FolderAssumption DEF Nodes, Ever, Nothing
  <2>3. news \in [Item -> News] /\ home \in [Doc -> Folder \cup {Root, None}]
    BY DEF Init, News
  <2>. QED BY <2>2, <2>3 DEF ServerOK
<1>7. LocalOK
  BY <1>1, <1>3 DEF Init, LocalOK
<1>8. PassOK
  BY DEF Init, PassOK, Applying
<1>9. CountOK
  <2>1. spent = [scenario |-> s, remote |-> 0, user |-> Cardinality(made),
                 removals |-> 0, failures |-> 0, stops |-> 0]
    BY <1>1
  <2>. HIDE DEF made
  <2>. QED BY <1>4, <2>1 DEF Init, CountOK, Spent
<1>10. Apart(frow)
  <2>1. frow = [i \in Folder |-> IF i \in old THEN <<name>> ELSE None]
    BY <1>1
  <2>. HIDE DEF old
  <2>. QED BY <1>5, <2>1 DEF Apart
<1>. QED BY <1>6, <1>7, <1>8, <1>9, <1>10 DEF IInv, Typed

(* It has the types.                                                        *)
LEMMA TypedIsTypeOK == Typed /\ crossed \in BOOLEAN => TypeOK
<1>. SUFFICES ASSUME Typed, crossed \in BOOLEAN PROVE TypeOK
  OBVIOUS
<1>1. ASSUME NEW i \in Folder
      PROVE  /\ node[i].state \in {"absent", "live", "deleted"}
             /\ node[i].parent \in Folder \cup {Root}
             /\ frow[i] = None \/ IsPath(frow[i])
  BY PathsArePaths DEF Typed, ServerOK, LocalOK, Nodes
<1>2. ASSUME NEW d \in Doc
      PROVE  /\ home[d] \in Folder \cup {Root, None}
             /\ \A p \in {at[d], drow[d]} : p \in {None, Top} \/ IsPath(p)
  <2>1. home[d] \in Folder \cup {Root, None} /\ {at[d], drow[d]} \subseteq Dirs \cup {None}
    BY DEF Typed, ServerOK, LocalOK
  <2>. QED BY <2>1, PathsArePaths DEF Paths
<1>3. \A p \in dirs \cup mkdirs : IsPath(p)
  BY PathsArePaths DEF Typed, LocalOK, PassOK
<1>. QED BY <1>1, <1>2, <1>3 DEF TypeOK, Typed, ServerOK, PassOK, CountOK, News, Spent

(* Whether a place was taken or lost is known after every step.             *)
LEMMA Crossing ==
  ASSUME crossed \in BOOLEAN, [Next]_vars
  PROVE  crossed' \in BOOLEAN
<1>1. CASE OtherClients \/ OtherClientsFiles \/ User \/ StartVerify \/ StartFull
  BY <1>1 DEF OtherClients, OtherClientsFiles, User, StartVerify, StartFull, RemoteCreate,
              RemoteMove, RemoteDelete, RemotePut, UserMkdir, UserPut, UserRemove, Fetch
<1>2. CASE Accident
  BY <1>2 DEF Accident, Stop, DieMoving, Crosses
<1>3. CASE Work
  <2>1. ASSUME NEW i \in Folder,
               PlaceFolder(i) \/ RefuseFolder(i) \/ FailFolder(i) \/ RemoveFolder(i)
        PROVE  crossed' \in BOOLEAN
    BY <2>1 DEF PlaceFolder, RefuseFolder, FailFolder, RemoveFolder, Crosses
  <2>2. ASSUME NEW d \in Doc,
               PlaceDoc(d) \/ RemoveDoc(d) \/ PushDoc(d) \/ PushFails(d) \/ DeleteMissing(d)
        PROVE  crossed' \in BOOLEAN
    BY <2>2 DEF PlaceDoc, RemoveDoc, PushDoc, PushFails, DeleteMissing
  <2>3. ASSUME NEW x \in Item, ResolveParent(x) \/ SkipItem(x)
        PROVE  crossed' \in BOOLEAN
    BY <2>3 DEF ResolveParent, SkipItem, Crosses
  <2>4. ASSUME NEW p \in mkdirs, NEW i \in Folder, NEW e \in Folder,
               AdoptFolder(i, e, p) \/ CreateBeside(i, e, p) \/ AdoptFails(i, e, p)
        PROVE  crossed' \in BOOLEAN
    BY <2>4 DEF AdoptFolder, CreateBeside, AdoptFails, Crosses
  <2>5. CASE EndVerify \/ Scan \/ ScanFiles \/ EndPass
    BY <2>5 DEF EndVerify, Scan, ScanFiles, EndPass
  <2>6. ASSUME NEW p \in mkdirs, DirFails(p) PROVE crossed' \in BOOLEAN
    BY <2>6 DEF DirFails
  <2>7. ASSUME NEW p \in mkdirs, NEW i \in Folder, CreateFolder(i, p)
        PROVE  crossed' \in BOOLEAN
    BY <2>7 DEF CreateFolder, Crosses
  <2>. QED BY <1>3, <2>1, <2>2, <2>3, <2>4, <2>5, <2>6, <2>7 DEF Work
<1>4. CASE UNCHANGED vars
  BY <1>4 DEF vars
<1>. QED BY <1>1, <1>2, <1>3, <1>4 DEF Next

(* So it holds throughout.                                                  *)
LEMMA Invariance == Spec => [](IInv /\ crossed \in BOOLEAN)
<1>1. Init => IInv /\ crossed \in BOOLEAN
  BY Start DEF Init
<1>2. IInv /\ crossed \in BOOLEAN /\ [Next]_vars => (IInv /\ crossed \in BOOLEAN)'
  BY StepKeeps, Crossing
<1>. QED BY <1>1, <1>2, PTL DEF Spec

(* Whatever folders, names and files there are: every variable holds what   *)
(* the disk, the state database and the server can hold, paths being made   *)
(* of users' names and copies of them.                                      *)
THEOREM TypeCorrect == Spec => []TypeOK
<1>1. IInv /\ crossed \in BOOLEAN => TypeOK
  BY TypedIsTypeOK DEF IInv
<1>. QED BY <1>1, Invariance, PTL

(* No two folder rows ever claim one path, whatever is moved onto what and  *)
(* wherever the process dies: the UNIQUE constraint of state/mod.rs is      *)
(* never what ends a pass.                                                  *)
THEOREM RowsAlwaysDistinct == Spec => []RowsDistinct
<1>1. IInv => RowsDistinct
  BY DEF IInv, Typed, LocalOK, Apart, RowsDistinct
<1>. QED BY <1>1, Invariance, PTL

-----------------------------------------------------------------------------
(* Where the files are.                                                     *)

(* What holds of the server and of the deletions a pass has in hand.        *)
SiblingsDiffer ==
  \A i, j \in Live :
    node[i].parent = node[j].parent /\ node[i].name = node[j].name => i = j
AbsentUntold == \A i \in Absent : news[i] = "none"
GoneForGood ==
  phase = "full" =>
    /\ \A i \in gone \cap Folder : node[i].state = "deleted"
    /\ \A d \in gone \cap Doc : home[d] = None /\ news[d] # "none"
Facts == SiblingsDiffer /\ AbsentUntold /\ GoneForGood

(* As long as nothing went astray: every row is its parent's and its name,  *)
(* what was fetched is still so, and a file is where its row has it and its *)
(* row where the server has it.                                             *)
LiveParents == \A i \in Live : Exists(node[i].parent)
RowsInPlace ==
  \A i \in Folder : frow[i] # None =>
    /\ i \in Live /\ Known(node[i].parent)
    /\ frow[i] = Append(PathOf(node[i].parent), node[i].name)
SnapIsNow ==
  Applying => /\ \A i \in todo \cap Folder : i \in Live /\ snap[i] = node[i]
              /\ \A d \in todo \cap Doc : snap[d].parent = home[d]
DocsInPlace ==
  \A d \in Doc :
    /\ drow[d] # None => Known(home[d]) /\ drow[d] = PathOf(home[d])
    /\ at[d] # None => IF drow[d] = None THEN home[d] = None ELSE at[d] = drow[d]
Straight == LiveParents /\ RowsInPlace /\ SnapIsNow /\ DocsInPlace

StayInv == IInv /\ Facts /\ (~astray => Straight)
FilesStill == \A d \in Doc : at[d] # None => at'[d] = at[d]

(* No path is None.                                                         *)
LEMMA NoneIsNoPath == None \notin Dirs
<1>1. SUFFICES ASSUME None \in Seq(Names) PROVE FALSE
  BY DEF Dirs
<1>2. \A k \in 1 .. Len(None) : None[k] \in Seq(Name \cup {"(1)"})
  BY <1>1, ElementOfSeq DEF Names
<1>3. None \in Seq(Seq(Name \cup {"(1)"}))
  BY <1>1, <1>2
<1>. QED BY <1>3, NoneAssumption

(* A path is its parent's and its name, and only that.                      *)
LEMMA CutAndJoined ==
  ASSUME NEW p \in Paths
  PROVE  Append(Front(p), Last(p)) = p
<1>1. p \in Seq(Names) /\ p # << >>
  BY DEF Paths, Dirs, Top
<1>2. PICK s \in Seq(Names), e \in Names : p = Append(s, e)
  BY <1>1, SequenceEmptyOrAppend
<1>3. Len(p) = Len(s) + 1 /\ Len(s) \in Nat /\ Last(p) = e
  BY <1>2 DEF Last
<1>4. Front(p) = s
  BY <1>2, <1>3 DEF Front
<1>. QED BY <1>2, <1>3, <1>4

(* No other folder's row is where a folder belongs, and its own row is      *)
(* nowhere else.                                                            *)
LEMMA ItsOwnPath ==
  ASSUME IInv, SiblingsDiffer, RowsInPlace, NEW i \in Live, Known(node[i].parent)
  PROVE  LET p == Append(PathOf(node[i].parent), node[i].name)
         IN /\ p \in Paths
            /\ frow[i] \in {None, p} /\ ~MustMove(Here, i, p)
            /\ \A j \in Folder \ {i} : frow[j] # p
<1>. DEFINE p == Append(PathOf(node[i].parent), node[i].name)
<1>. USE DEF IInv, Typed
<1>1. i \in Folder /\ node[i].parent \in Folder \cup {Root} /\ node[i].name \in Names
  BY DEF Live, ServerOK, Nodes, Ever
<1>2. PathOf(node[i].parent) \in Dirs /\ p \in Paths
  BY <1>1, Placing, Joined
<1>3. frow[i] \in {None, p} /\ ~MustMove(Here, i, p)
  BY <1>1 DEF RowsInPlace, MustMove, Here
<1>4. ASSUME NEW j \in Folder, frow[j] = p PROVE j = i
  <2>. DEFINE f == node[i].parent
              g == node[j].parent
  <2>1. /\ j \in Live /\ Known(g) /\ frow[j] = Append(PathOf(g), node[j].name)
    BY <1>2, <1>4, NoneIsNoPath DEF RowsInPlace, Paths
  <2>2. g \in Folder \cup {Root} /\ node[j].name \in Names /\ PathOf(g) \in Dirs
    <3>1. g \in Folder \cup {Root} /\ node[j].name \in Names
      BY <2>1 DEF Live, ServerOK, Nodes, Ever
    <3>. QED BY <2>1, <3>1, Placing
  <2>3. PathOf(f) = PathOf(g) /\ node[i].name = node[j].name
    <3>1. /\ PathOf(f) \in Seq(Names) /\ node[i].name \in Names
          /\ PathOf(g) \in Seq(Names) /\ node[j].name \in Names
      BY <1>1, <1>2, <2>2 DEF Dirs
    <3>2. Append(PathOf(f), node[i].name) = Append(PathOf(g), node[j].name)
      BY <1>4, <2>1
    <3>. HIDE DEF f, g
    <3>. QED BY <3>1, <3>2, AppendInjective
  <2>4. f = g
    <3>1. \A h \in Folder : frow[h] # None => frow[h] # Top
      BY DEF LocalOK, Paths
    <3>. QED BY <1>1, <2>1, <2>2, <2>3, <3>1 DEF PathOf, Known, Apart, LocalOK
  <2>. QED BY <2>1, <2>3, <2>4 DEF SiblingsDiffer
<1>. QED BY <1>2, <1>3, <1>4
(* What a step that does not touch the server keeps.                        *)
LEMMA FactsStay ==
  ASSUME StayInv, UNCHANGED <<node, home>>,
         \A x \in Item : news[x] = "none" => news'[x] = "none",
         phase' = "full" => phase = "full" /\ gone' \subseteq gone /\ UNCHANGED news
  PROVE  Facts'
<1>1. UNCHANGED Live /\ UNCHANGED Absent /\ Absent \subseteq Item
  BY DEF Live, Absent, Item
<1>. QED
  BY <1>1 DEF StayInv, Facts, SiblingsDiffer, AbsentUntold, GoneForGood

(* What a step keeps that moves neither a row nor a file.                   *)
LEMMA PlacesStay ==
  ASSUME Straight, UNCHANGED <<node, home, frow, at, drow>>,
         Applying' => Applying /\ todo' \subseteq todo /\ UNCHANGED snap
  PROVE  Straight'
<1>1. UNCHANGED Live
  BY DEF Live
<1>2. LiveParents' /\ RowsInPlace' /\ DocsInPlace'
  BY <1>1 DEF Straight, LiveParents, RowsInPlace, DocsInPlace, Exists, Known, PathOf
<1>3. SnapIsNow'
  BY <1>1 DEF Straight, SnapIsNow
<1>. QED BY <1>2, <1>3 DEF Straight

(* Recording a folder whose directory need not move changes its row only.   *)
LEMMA PlainlyRecorded ==
  ASSUME IInv, NEW i \in Folder, NEW p \in Paths, ~MustMove(Here, i, p),
         \A j \in Folder \ {i} : frow[j] # p,
         Becomes(Recorded(Here, i, p))
  PROVE  UNCHANGED <<at, drow>> /\ frow' = [frow EXCEPT ![i] = p]
<1>. DEFINE fr == [j \in Folder |-> IF j = i THEN p ELSE IF frow[j] = p THEN None ELSE frow[j]]
<1>1. Recorded(Here, i, p) = [Here EXCEPT !.dirs = CreateDirs(@, p), !.frow = fr]
  BY DEF Recorded, Here
<1>2. fr = [frow EXCEPT ![i] = p]
  BY DEF IInv, Typed, LocalOK
<1>. HIDE DEF fr
<1>3. /\ Recorded(Here, i, p).frow = fr /\ Recorded(Here, i, p).at = at
      /\ Recorded(Here, i, p).drow = drow
  BY <1>1 DEF Here
<1>. QED BY <1>2, <1>3 DEF Becomes

(* A new row leaves the others where they are.                              *)
LEMMA KnownStays ==
  ASSUME IInv, NEW i \in Folder, NEW p \in Paths, frow[i] \in {None, p},
         frow' = [frow EXCEPT ![i] = p]
  PROVE  /\ Known(i)' /\ PathOf(i)' = p
         /\ \A f : Known(f) => Known(f)' /\ PathOf(f)' = PathOf(f)
<1>1. frow \in [Folder -> Paths \cup {None}] /\ i # Root /\ p # None
  BY FolderAssumption, NoneIsNoPath DEF IInv, Typed, LocalOK, Paths
<1>2. \A j \in Folder : frow[j] # None => frow'[j] = frow[j]
  BY <1>1
<1>. QED BY <1>1, <1>2 DEF Known, PathOf

(* A row under its parent's adds a place and changes no other.              *)
LEMMA RowAdded ==
  ASSUME StayInv, ~astray, NEW i \in Live, Known(node[i].parent), UNCHANGED <<node, home>>,
         Becomes(Recorded(Here, i, Append(PathOf(node[i].parent), node[i].name))),
         Applying' => Applying /\ todo' \subseteq todo /\ UNCHANGED snap
  PROVE  Straight' /\ FilesStill
<1>. DEFINE p == Append(PathOf(node[i].parent), node[i].name)
<1>. USE DEF StayInv, Facts
<1>1. /\ i \in Folder /\ p \in Paths /\ frow[i] \in {None, p} /\ ~MustMove(Here, i, p)
      /\ \A j \in Folder \ {i} : frow[j] # p
  BY ItsOwnPath DEF Straight, Live
<1>. HIDE DEF p
<1>2. UNCHANGED <<at, drow>> /\ frow' = [frow EXCEPT ![i] = p]
  BY <1>1, PlainlyRecorded DEF p
<1>3. /\ Known(i)' /\ PathOf(i)' = p
      /\ \A f : Known(f) => Known(f)' /\ PathOf(f)' = PathOf(f)
  BY <1>1, <1>2, KnownStays
<1>4. UNCHANGED Live
  BY DEF Live
<1>5. LiveParents' /\ SnapIsNow'
  BY <1>4 DEF Straight, LiveParents, SnapIsNow, Exists
<1>6. RowsInPlace'
  <2>1. ASSUME NEW j \in Folder, frow'[j] # None
        PROVE  /\ j \in Live /\ Known(node[j].parent)
               /\ frow'[j] = Append(PathOf(node[j].parent), node[j].name)
    <3>1. CASE j = i
      BY <1>1, <1>2, <3>1 DEF p, IInv, Typed, LocalOK
    <3>2. CASE j # i
      BY <1>1, <1>2, <2>1, <3>2 DEF Straight, RowsInPlace, IInv, Typed, LocalOK
    <3>. QED BY <3>1, <3>2
  <2>. QED BY <1>3, <1>4, <2>1 DEF RowsInPlace
<1>7. DocsInPlace'
  BY <1>2, <1>3 DEF Straight, DocsInPlace
<1>. QED BY <1>2, <1>5, <1>6, <1>7 DEF Straight, FilesStill
(* What is asked of every step: it keeps Facts, and as long as nothing went *)
(* astray, Straight and the files.                                          *)
Stays == Facts' /\ (~astray' => Straight' /\ (User \/ FilesStill))

(* A change by another client that is not the first of a thing is astray.   *)
LEMMA OthersStay ==
  ASSUME StayInv, OtherClients \/ OtherClientsFiles
  PROVE  Stays
<1>. USE DEF StayInv, Facts
<1>1. /\ UNCHANGED <<local, pass>> /\ astray' \in {astray, TRUE}
  <2>1. CASE OtherClients
    BY <2>1 DEF OtherClients, RemoteCreate, RemoteMove, RemoteDelete, IInv, Typed, CountOK
  <2>2. CASE OtherClientsFiles
    BY <2>2 DEF OtherClientsFiles, RemotePut, IInv, Typed, CountOK
  <2>. QED BY <2>1, <2>2
<1>2. FilesStill
  BY <1>1 DEF FilesStill, local
<1>3. ASSUME NEW i \in Folder, NEW f \in Folder \cup {Root}, NEW name \in Given,
             RemoteCreate(i, f, name)
      PROVE  Facts' /\ (~astray' => Straight')
  <2>1. /\ i \in Absent /\ Exists(f) /\ Named(f, name) \subseteq {i} /\ Told({i})
        /\ node' = [node EXCEPT ![i] = [state |-> "live", parent |-> f, name |-> name]]
        /\ UNCHANGED <<home, astray>>
    BY <1>3 DEF RemoteCreate, NextId, Unclaimed, Give
  <2>2. /\ i \notin Live /\ Live' = Live \cup {i} /\ Absent' = Absent \ {i}
        /\ \A j \in Live : node'[j] = node[j] /\ j # i
        /\ node'[i].parent = f /\ node'[i].name = name
    BY <2>1 DEF Live, Absent, IInv, Typed, ServerOK
  <2>3. SiblingsDiffer'
    BY <2>1, <2>2 DEF SiblingsDiffer, Named, Children
  <2>4. AbsentUntold' /\ GoneForGood'
    <3>1. /\ \A x \in Item : news'[x] = IF x = i THEN "fresh" ELSE news[x]
          /\ Absent \subseteq Item /\ Doc \subseteq Item
      BY <2>1 DEF Told, Absent, Item
    <3>2. \A j \in Folder : node[j].state = "deleted" => node'[j].state = "deleted"
      BY <2>1 DEF Absent, IInv, Typed, ServerOK
    <3>. QED BY <1>1, <2>1, <2>2, <3>1, <3>2 DEF AbsentUntold, GoneForGood, pass
  <2>5. ASSUME ~astray' PROVE Straight'
    <3>1. LiveParents'
      BY <2>1, <2>2, <2>5 DEF Straight, LiveParents, Exists
    <3>2. RowsInPlace'
      BY <1>1, <2>1, <2>2, <2>5 DEF Straight, RowsInPlace, Known, PathOf, local
    <3>3. SnapIsNow'
      BY <1>1, <2>1, <2>2, <2>5 DEF Straight, SnapIsNow, Applying, pass
    <3>4. DocsInPlace'
      BY <1>1, <2>1, <2>5 DEF Straight, DocsInPlace, Known, PathOf, local
    <3>. QED BY <3>1, <3>2, <3>3, <3>4 DEF Straight
  <2>. QED BY <2>3, <2>4, <2>5
<1>4. ASSUME NEW i \in Folder, NEW f \in Folder \cup {Root}, NEW name \in Given,
             RemoteMove(i, f, name)
      PROVE  Facts' /\ (~astray' => Straight')
  <2>1. /\ i \in Live /\ Named(f, name) \subseteq {i} /\ Told({i}) /\ astray' = TRUE
        /\ node' = [node EXCEPT ![i] = [state |-> "live", parent |-> f, name |-> name]]
        /\ UNCHANGED home
    BY <1>4 DEF RemoteMove, Unclaimed, Give
  <2>2. /\ Live' = Live /\ Absent' = Absent
        /\ \A j \in Folder \ {i} : node'[j] = node[j]
        /\ node'[i].parent = f /\ node'[i].name = name
    BY <2>1 DEF Live, Absent, IInv, Typed, ServerOK
  <2>3. SiblingsDiffer'
    BY <2>1, <2>2 DEF SiblingsDiffer, Named, Children, Live
  <2>4. AbsentUntold' /\ GoneForGood'
    <3>1. /\ \A x \in Item : news'[x] = IF x = i THEN "fresh" ELSE news[x]
          /\ Absent \subseteq Item /\ Doc \subseteq Item /\ i \notin Absent
      BY <2>1 DEF Told, Absent, Live, Item
    <3>2. \A j \in Folder : node[j].state = "deleted" => node'[j].state = "deleted"
      BY <2>1, <2>2 DEF Live
    <3>. QED BY <1>1, <2>1, <2>2, <3>1, <3>2 DEF AbsentUntold, GoneForGood, pass
  <2>. QED BY <2>1, <2>3, <2>4
<1>5. ASSUME NEW i \in Folder, RemoteDelete(i)
      PROVE  Facts' /\ (~astray' => Straight')
  <2>1. /\ Told(Contents(i)) /\ astray' = TRUE
        /\ node' = [j \in Folder |-> IF j \in Contents(i)
                                     THEN [node[j] EXCEPT !.state = "deleted"] ELSE node[j]]
        /\ home' = [d \in Doc |-> IF d \in Contents(i) THEN None ELSE home[d]]
    BY <1>5 DEF RemoteDelete
  <2>2. Contents(i) \cap Folder \subseteq Live
    BY ItemAssumption DEF Contents
  <2>3. /\ Live' \subseteq Live /\ Absent' = Absent
        /\ \A j \in Folder : node'[j].parent = node[j].parent /\ node'[j].name = node[j].name
        /\ \A j \in Folder : node[j].state = "deleted" => node'[j].state = "deleted"
    BY <2>1, <2>2 DEF Live, Absent, IInv, Typed, ServerOK, Nodes
  <2>4. SiblingsDiffer'
    BY <2>3 DEF SiblingsDiffer, Live
  <2>5. AbsentUntold' /\ GoneForGood'
    <3>1. /\ \A x \in Item : news'[x] = IF x \in Contents(i) THEN "fresh" ELSE news[x]
          /\ Absent \subseteq Item /\ Doc \subseteq Item /\ Absent \cap Contents(i) = {}
      BY <2>1, <2>2 DEF Told, Absent, Live, Item
    <3>. QED BY <1>1, <2>1, <2>3, <3>1 DEF AbsentUntold, GoneForGood, pass
  <2>. QED BY <2>1, <2>4, <2>5
<1>6. ASSUME NEW d \in Doc, NEW f \in Folder \cup {Root}, RemotePut(d, f)
      PROVE  Facts' /\ (~astray' => Straight')
  <2>1. /\ UNCHANGED node /\ Told({d}) /\ home' = [home EXCEPT ![d] = f]
        /\ home[d] = None => at[d] = None /\ drow[d] = None /\ news[d] = "none"
        /\ ~astray' => ~astray /\ home[d] = None
    BY <1>6 DEF RemotePut, IInv, Typed, CountOK
  <2>2. /\ \A x \in Item : news'[x] = IF x = d THEN "fresh" ELSE news[x]
        /\ Absent \subseteq Item /\ Doc \subseteq Item /\ d \notin Absent
        /\ UNCHANGED Live /\ UNCHANGED Absent
    BY <2>1, ItemAssumption DEF Told, Absent, Live, Item
  <2>3. \A e \in Doc : home'[e] = IF e = d THEN f ELSE home[e]
    BY <2>1 DEF IInv, Typed, ServerOK
  <2>4. Facts'
    BY <1>1, <2>1, <2>2, <2>3 DEF SiblingsDiffer, AbsentUntold, GoneForGood, pass
  <2>5. ASSUME ~astray' PROVE Straight'
    <3>1. Straight /\ at[d] = None /\ drow[d] = None /\ home[d] = None
      BY <2>1, <2>5
    <3>2. LiveParents' /\ RowsInPlace'
      BY <1>1, <2>1, <2>2, <3>1 DEF Straight, LiveParents, RowsInPlace, Exists, Known, PathOf, local
    <3>3. SnapIsNow'
      <4>1. ASSUME Applying, d \in todo PROVE FALSE
        BY <3>1, <4>1, ItemAssumption DEF Straight, SnapIsNow, IInv, Typed, PassOK, SnapOK
      <4>. QED BY <1>1, <2>1, <2>2, <2>3, <3>1, <4>1 DEF Straight, SnapIsNow, Applying, pass
    <3>4. DocsInPlace'
      BY <1>1, <2>1, <2>3, <3>1 DEF Straight, DocsInPlace, Known, PathOf, local
    <3>. QED BY <3>2, <3>3, <3>4 DEF Straight
  <2>. QED BY <2>4, <2>5
<1>. QED BY <1>2, <1>3, <1>4, <1>5, <1>6 DEF OtherClients, OtherClientsFiles, Stays
(* The user puts a file only where no row and no object is.                 *)
LEMMA UserStays ==
  ASSUME StayInv, User
  PROVE  Stays
<1>. USE DEF StayInv, Facts
<1>1. UNCHANGED <<server, frow, drow, pass, astray>>
  BY DEF User, UserMkdir, UserPut, UserRemove
<1>2. Facts'
  BY <1>1, FactsStay DEF server, pass
<1>3. ASSUME ~astray PROVE Straight'
  <2>1. UNCHANGED Live
    BY <1>1 DEF Live, server
  <2>2. LiveParents' /\ RowsInPlace' /\ SnapIsNow'
    BY <1>1, <1>3, <2>1 DEF Straight, LiveParents, RowsInPlace, SnapIsNow, Exists, Known, PathOf,
                            Applying, server, pass
  <2>3. \A d \in Doc : \/ at'[d] \in {at[d], None}
                       \/ drow[d] = None /\ home[d] = None
    BY DEF User, UserMkdir, UserPut, UserRemove, IInv, Typed, LocalOK
  <2>4. DocsInPlace'
    BY <1>1, <1>3, <2>3 DEF Straight, DocsInPlace, Known, PathOf, server
  <2>. QED BY <2>2, <2>4 DEF Straight
<1>. QED BY <1>1, <1>2, <1>3 DEF Stays

(* Nothing that is fetched would move a directory, so the process cannot    *)
(* die doing it.                                                            *)
LEMMA NothingMoves ==
  ASSUME StayInv, ~astray, Applying, NEW i \in Folder, IsNext(i), Known(snap[i].parent)
  PROVE  /\ i \in Live /\ Known(node[i].parent)
         /\ Target(i) = Append(PathOf(node[i].parent), node[i].name)
         /\ ~MustMove(Here, i, Target(i))
<1>1. i \in Live /\ snap[i] = node[i]
  BY DEF StayInv, Straight, SnapIsNow, IsNext
<1>2. ~MustMove(Here, i, Append(PathOf(node[i].parent), node[i].name))
  BY <1>1, ItsOwnPath DEF StayInv, Facts, Straight
<1>. QED BY <1>1, <1>2 DEF Target

(* Dying moves no file while nothing is astray.                             *)
LEMMA AccidentStays ==
  ASSUME StayInv, Accident
  PROVE  Stays
<1>. USE DEF StayInv, Facts
<1>1. UNCHANGED <<node, home, astray>> /\ Rest /\ news' = Unread
  BY DEF Accident, Stop, DieMoving
<1>2. Facts'
  <2>1. \A x \in Item : news[x] = "none" => news'[x] = "none"
    BY <1>1 DEF Unread
  <2>. QED BY <1>1, <2>1, FactsStay DEF Rest
<1>3. ASSUME ~astray PROVE Straight' /\ FilesStill
  <2>1. UNCHANGED local
    <3>1. ~\E i \in Folder : DieMoving(i)
      BY <1>3, NothingMoves DEF DieMoving
    <3>. QED BY <3>1 DEF Accident, Stop
  <2>2. Straight'
    BY <1>1, <1>3, <2>1, PlacesStay DEF Rest, Applying, local
  <2>. QED BY <2>1, <2>2 DEF FilesStill, local
<1>. QED BY <1>1, <1>2, <1>3 DEF Stays

(* What a pass fetches is what the server has at that moment.               *)
LEMMA StartStays ==
  ASSUME StayInv, StartVerify \/ StartFull
  PROVE  Stays
<1>. USE DEF StayInv, Facts
<1>1. /\ UNCHANGED <<node, home, local, astray>> /\ todo' \subseteq Everything
      /\ \A x \in todo' : snap'[x] = IF x \in Folder THEN node[x]
                                     ELSE [Nothing EXCEPT !.parent = home[x]]
  BY DEF StartVerify, StartFull, Fetch, Everything, Item, Live
<1>2. UNCHANGED Live /\ UNCHANGED Absent /\ Absent \subseteq Item
  BY <1>1 DEF Live, Absent, Item
<1>3. SiblingsDiffer'
  BY <1>1, <1>2 DEF SiblingsDiffer
<1>4. AbsentUntold'
  BY <1>2 DEF AbsentUntold, StartVerify, StartFull
<1>5. GoneForGood'
  <2>1. CASE StartVerify
    BY <2>1 DEF StartVerify, GoneForGood
  <2>2. CASE StartFull
    <3>1. \A x \in gone' : /\ x \in Item /\ x \notin Everything
                           /\ news[x] # "none" /\ news'[x] # "none"
      BY <2>2 DEF StartFull, Fetch
    <3>2. \A i \in gone' \cap Folder : node[i].state = "deleted"
      BY <3>1 DEF AbsentUntold, Absent, Everything, Live, IInv, Typed, ServerOK, Nodes
    <3>3. \A d \in gone' \cap Doc : home[d] = None
      BY <3>1 DEF Everything
    <3>. QED BY <1>1, <3>1, <3>2, <3>3 DEF GoneForGood
  <2>. QED BY <2>1, <2>2
<1>6. ASSUME ~astray PROVE Straight' /\ FilesStill
  <2>1. LiveParents' /\ RowsInPlace' /\ DocsInPlace' /\ FilesStill
    BY <1>1, <1>2, <1>6 DEF Straight, LiveParents, RowsInPlace, DocsInPlace, FilesStill,
                            Exists, Known, PathOf, local
  <2>2. SnapIsNow'
    <3>1. ASSUME NEW d \in todo' \cap Doc PROVE snap'[d].parent = home[d]
      <4>1. snap'[d] = [Nothing EXCEPT !.parent = home[d]]
        BY <1>1, ItemAssumption
      <4>. QED BY <4>1 DEF Nothing
    <3>2. \A i \in todo' \cap Folder : i \in Live /\ snap'[i] = node[i]
      BY <1>1, ItemAssumption DEF Everything
    <3>. QED BY <1>1, <1>2, <3>1, <3>2 DEF SnapIsNow
  <2>. QED BY <2>1, <2>2 DEF Straight
<1>. QED BY <1>1, <1>3, <1>4, <1>5, <1>6 DEF Stays
(* A fetched folder is placed where it is; one that is gone has no row.     *)
LEMMA FoldersStay ==
  ASSUME StayInv, NEW i \in Folder,
         PlaceFolder(i) \/ RefuseFolder(i) \/ FailFolder(i) \/ RemoveFolder(i)
  PROVE  Stays
<1>. USE DEF StayInv, Facts
<1>1. Facts' /\ UNCHANGED <<node, home, astray>>
  <2>1. CASE FailFolder(i)
    <3>1. Rest /\ news' = Unread /\ UNCHANGED <<node, home, astray>>
      BY <2>1 DEF FailFolder, Abort
    <3>2. \A x \in Item : news[x] = "none" => news'[x] = "none"
      BY <3>1 DEF Unread
    <3>. QED BY <3>1, <3>2, FactsStay DEF Rest
  <2>2. CASE PlaceFolder(i) \/ RefuseFolder(i) \/ RemoveFolder(i)
    <3>1. Unchanging /\ gone' \subseteq gone
      BY <2>2 DEF PlaceFolder, RefuseFolder, RemoveFolder
    <3>. QED BY <3>1, FactsStay DEF Unchanging, server
  <2>. QED BY <2>1, <2>2
<1>2. ASSUME ~astray PROVE Straight' /\ FilesStill
  <2>1. CASE PlaceFolder(i)
    <3>1. /\ i \in Live /\ Known(node[i].parent)
          /\ Becomes(Recorded(Here, i, Append(PathOf(node[i].parent), node[i].name)))
          /\ Unchanging /\ Placed(i)
      BY <1>2, <2>1, NothingMoves DEF PlaceFolder
    <3>. QED BY <1>1, <1>2, <3>1, RowAdded DEF Unchanging, Placed, Applying
  <2>2. ~RefuseFolder(i) /\ ~FailFolder(i)
    BY <1>2, NothingMoves DEF RefuseFolder, FailFolder, Refused, Fails
  <2>3. CASE RemoveFolder(i)
    <3>1. i \notin Live
      BY <2>3 DEF RemoveFolder, GoneForGood, Live
    <3>2. frow[i] = None
      BY <1>2, <3>1 DEF Straight, RowsInPlace
    <3>3. UNCHANGED <<at, drow, frow>> /\ Unchanging /\ todo' = todo
      BY <2>3, <3>2 DEF RemoveFolder, IInv, Typed, LocalOK
    <3>4. Straight'
      BY <1>1, <1>2, <3>3, PlacesStay DEF Unchanging, Applying
    <3>. QED BY <3>3, <3>4 DEF FilesStill
  <2>. QED BY <2>1, <2>2, <2>3
<1>. QED BY <1>1, <1>2 DEF Stays

(* A fetched file is where it goes, or nowhere yet; one that is gone has no *)
(* row.                                                                     *)
LEMMA DocsStay ==
  ASSUME StayInv, NEW d \in Doc, PlaceDoc(d) \/ RemoveDoc(d)
  PROVE  Stays
<1>. USE DEF StayInv, Facts
<1>1. /\ Unchanging /\ gone' \subseteq gone /\ todo' \subseteq todo /\ UNCHANGED frow
  BY DEF PlaceDoc, RemoveDoc, Placed
<1>2. Facts'
  BY <1>1, FactsStay DEF Unchanging, server
<1>3. ASSUME ~astray PROVE Straight' /\ FilesStill
  <2>1. UNCHANGED Live /\ UNCHANGED <<node, home>>
    BY <1>1 DEF Live, Unchanging, server
  <2>2. LiveParents' /\ RowsInPlace' /\ SnapIsNow'
    BY <1>1, <1>3, <2>1 DEF Straight, LiveParents, RowsInPlace, SnapIsNow, Exists, Known, PathOf,
                            Applying, Unchanging
  <2>3. CASE PlaceDoc(d)
    <3>. DEFINE p == PathOf(home[d])
    <3>1. Known(home[d]) /\ snap[d].parent = home[d]
      BY <1>3, <2>3 DEF PlaceDoc, Straight, SnapIsNow
    <3>2. home[d] # None /\ p # None
      <4>1. home[d] # None /\ home[d] \in Folder \cup {Root}
        BY <3>1, ItemAssumption DEF Known
      <4>. QED BY <3>1, <4>1, Placing, NoneIsNoPath DEF IInv
    <3>3. drow[d] \in {None, p} /\ at[d] \in {None, p}
      BY <1>3, <3>2 DEF Straight, DocsInPlace
    <3>4. drow' = [drow EXCEPT ![d] = p] /\ at' = [at EXCEPT ![d] = p]
      BY <2>3, <3>1, <3>3 DEF PlaceDoc
    <3>. HIDE DEF p
    <3>5. FilesStill
      BY <3>3, <3>4 DEF FilesStill, IInv, Typed, LocalOK
    <3>6. DocsInPlace'
      <4>1. ASSUME NEW e \in Doc
            PROVE  /\ drow'[e] # None => Known(home[e]) /\ drow'[e] = PathOf(home[e])
                   /\ at'[e] # None => IF drow'[e] = None THEN home[e] = None ELSE at'[e] = drow'[e]
        <5>1. CASE e = d
          BY <3>1, <3>2, <3>4, <5>1 DEF p, IInv, Typed, LocalOK
        <5>2. CASE e # d
          BY <1>3, <3>4, <5>2 DEF Straight, DocsInPlace, IInv, Typed, LocalOK
        <5>. QED BY <5>1, <5>2
      <4>. QED BY <1>1, <2>1, <4>1 DEF DocsInPlace, Known, PathOf
    <3>. QED BY <2>2, <3>5, <3>6 DEF Straight
  <2>4. CASE RemoveDoc(d)
    <3>1. home[d] = None
      BY <2>4 DEF RemoveDoc, GoneForGood
    <3>2. drow[d] = None
      BY <1>3, <3>1, ItemAssumption DEF Straight, DocsInPlace, Known
    <3>3. UNCHANGED <<at, drow>>
      BY <2>4, <3>2 DEF RemoveDoc, IInv, Typed, LocalOK
    <3>4. DocsInPlace' /\ FilesStill
      BY <1>1, <1>3, <2>1, <3>3 DEF Straight, DocsInPlace, FilesStill, Known, PathOf
    <3>. QED BY <2>2, <3>4 DEF Straight
  <2>. QED BY <2>3, <2>4
<1>. QED BY <1>1, <1>2, <1>3 DEF Stays, Unchanging

(* The ancestors asked for exist, as long as nothing was deleted.           *)
LEMMA AskedLive ==
  ASSUME IInv, LiveParents, NEW f \in Live, NEW g \in Asked(f)
  PROVE  g \in Live
<1>1. \A h \in Live : Known(node[h].parent) \/ node[h].parent \in Live
  BY DEF LiveParents, Exists, Known
<1>2. Live \in SUBSET Folder
  BY DEF Live
<1>. QED BY <1>1, <1>2 DEF Asked

(* A parent asked for is recorded where the server has it.                  *)
LEMMA ParentsStay ==
  ASSUME StayInv, NEW x \in Item, ResolveParent(x) \/ SkipItem(x)
  PROVE  Stays
<1>. USE DEF StayInv, Facts
<1>1. /\ UNCHANGED <<node, home, news, phase, snap, astray>> /\ todo' \subseteq todo
      /\ gone' \subseteq gone
  BY DEF ResolveParent, SkipItem, Unchanging, Placed, server
<1>2. Facts'
  BY <1>1, FactsStay
<1>3. ASSUME ~astray PROVE Straight' /\ FilesStill
  <2>1. CASE ResolveParent(x)
    <3>1. PICK f \in Asked(snap[x].parent) :
            /\ Known(node[f].parent)
            /\ Becomes(Recorded(Here, f, Append(PathOf(node[f].parent), node[f].name)))
      BY <2>1 DEF ResolveParent
    <3>2. f \in Live
      BY <1>3, <2>1, <3>1, AskedLive DEF ResolveParent, Straight
    <3>. QED BY <1>1, <1>3, <3>1, <3>2, RowAdded DEF Applying
  <2>2. CASE SkipItem(x)
    <3>1. UNCHANGED local
      BY <2>2 DEF SkipItem
    <3>2. Straight'
      BY <1>1, <1>3, <3>1, PlacesStay DEF Applying, local
    <3>. QED BY <3>1, <3>2 DEF FilesStill, local
  <2>. QED BY <2>1, <2>2
<1>. QED BY <1>1, <1>2, <1>3 DEF Stays

(* A directory whose parent has a row belongs where it is.                  *)
LEMMA DirPlace ==
  ASSUME StayInv, ~astray, NEW p \in mkdirs, NextDir(p), Front(p) \in Tracked \cup {Top}
  PROVE  /\ Known(Parent(p)) /\ p = Append(PathOf(Parent(p)), Last(p))
         /\ \A j \in Folder : frow[j] # p
         /\ \A e \in Named(Parent(p), Last(p)) : frow[e] = None
<1>. USE DEF StayInv, IInv
<1>1. p \in Paths /\ Append(Front(p), Last(p)) = p
  BY NewDirTyped, CutAndJoined
<1>2. PathOf(Parent(p)) = Front(p) /\ Known(Parent(p))
  <2>1. CASE Front(p) \in Tracked
    BY <2>1, FolderAssumption DEF Parent, FolderAt, Tracked, PathOf, Known
  <2>2. CASE Front(p) \notin Tracked
    BY <2>2 DEF Parent, FolderAt, PathOf, Known
  <2>. QED BY <2>1, <2>2
<1>3. \A j \in Folder : frow[j] # p
  BY <1>1, NoneIsNoPath DEF NextDir, Tracked, Paths
<1>4. \A e \in Named(Parent(p), Last(p)) : frow[e] = None
  BY <1>1, <1>2, <1>3 DEF Named, Children, Live, Straight, RowsInPlace
<1>. QED BY <1>1, <1>2, <1>3, <1>4

(* What making a folder on the server keeps.                                *)
LEMMA FactsMade ==
  ASSUME StayInv, NEW i \in Absent, NEW f, NEW name, NEW st \in {"live", "deleted"},
         node' = [node EXCEPT ![i] = [state |-> st, parent |-> f, name |-> name]],
         st = "live" => Named(f, name) = {},
         Told({i}), phase' # "full"
  PROVE  Facts' /\ Absent' = Absent \ {i} /\ i \notin Live
         /\ Live' = Live \cup (IF st = "live" THEN {i} ELSE {})
         /\ \A j \in Live : node'[j] = node[j]
<1>1. /\ Absent' = Absent \ {i} /\ i \notin Live /\ i \in Folder
      /\ Live' = Live \cup (IF st = "live" THEN {i} ELSE {})
      /\ \A j \in Folder \ {i} : node'[j] = node[j]
      /\ node'[i].parent = f /\ node'[i].name = name
  BY DEF StayInv, IInv, Typed, ServerOK, Live, Absent
<1>2. SiblingsDiffer'
  BY <1>1 DEF StayInv, Facts, SiblingsDiffer, Named, Children, Live
<1>3. AbsentUntold'
  BY <1>1 DEF StayInv, Facts, AbsentUntold, Told, Absent, Item
<1>. QED BY <1>1, <1>2, <1>3 DEF Facts, GoneForGood, Live

(* A directory made on the server, or adopted, is where it belongs.         *)
LEMMA DirsStay ==
  ASSUME StayInv, NEW p \in mkdirs,
         \/ DirFails(p)
         \/ \E i \in Folder : \/ CreateFolder(i, p)
                              \/ \E e \in Folder : AdoptFolder(i, e, p) \/ CreateBeside(i, e, p)
                                                     \/ AdoptFails(i, e, p)
  PROVE  Stays
<1>. USE DEF StayInv
<1>1. NextDir(p) /\ Made(p) /\ phase' = "push" /\ UNCHANGED home
  BY DEF DirFails, CreateFolder, AdoptFolder, CreateBeside, AdoptFails, NextDir, Made
<1>2. CASE DirFails(p)
  <2>1. UNCHANGED <<node, home, news, local, astray>>
    BY <1>1, <1>2 DEF DirFails
  <2>2. Facts'
    BY <1>1, <2>1, FactsStay
  <2>3. ~astray => Straight' /\ FilesStill
    BY <1>1, <2>1, PlacesStay DEF Applying, local, FilesStill
  <2>. QED BY <2>1, <2>2, <2>3 DEF Stays
<1>3. ASSUME Strays(Front(p)), ~astray'
      PROVE  ~astray /\ Front(p) \in Tracked \cup {Top}
  BY <1>3 DEF Strays, IInv, Typed, CountOK
<1>4. ASSUME NEW i \in Folder, CreateFolder(i, p) PROVE Stays
  <2>1. /\ i \in Absent /\ Told({i}) /\ Named(Parent(p), Last(p)) = {} /\ Exists(Parent(p))
        /\ node' = [node EXCEPT ![i] =
                      [state |-> "live", parent |-> Parent(p), name |-> Last(p)]]
        /\ Becomes(Recorded(Here, i, p)) /\ Strays(Front(p))
    BY <1>4 DEF CreateFolder, NextId, Give
  <2>2. /\ Facts' /\ Absent' = Absent \ {i} /\ i \notin Live /\ Live' = Live \cup {i}
        /\ \A j \in Live : node'[j] = node[j]
    BY <1>1, <2>1, FactsMade
  <2>3. ASSUME ~astray' PROVE Straight' /\ FilesStill
    <3>1. /\ Straight /\ p \in Paths
          /\ Known(Parent(p)) /\ p = Append(PathOf(Parent(p)), Last(p))
          /\ \A j \in Folder : frow[j] # p
      BY <1>1, <1>3, <2>1, <2>3, DirPlace, NewDirTyped DEF IInv
    <3>2. frow[i] = None
      BY <2>2, <3>1 DEF Straight, RowsInPlace
    <3>3. UNCHANGED <<at, drow>> /\ frow' = [frow EXCEPT ![i] = p]
      BY <2>1, <3>1, <3>2, PlainlyRecorded DEF MustMove, Here
    <3>4. \A f : Known(f) => Known(f)' /\ PathOf(f)' = PathOf(f)
      BY <3>1, <3>2, <3>3, KnownStays
    <3>5. LiveParents'
      BY <2>1, <2>2, <3>1 DEF Straight, LiveParents, Exists, IInv, Typed, ServerOK
    <3>6. RowsInPlace'
      <4>1. node'[i].parent = Parent(p) /\ node'[i].name = Last(p) /\ frow'[i] = p
        BY <2>1, <3>3 DEF IInv, Typed, ServerOK, LocalOK
      <4>2. \A j \in Folder \ {i} : frow'[j] = frow[j]
        BY <3>3 DEF IInv, Typed, LocalOK
      <4>. QED BY <2>2, <3>1, <3>4, <4>1, <4>2 DEF Straight, RowsInPlace
    <3>7. SnapIsNow' /\ DocsInPlace'
      BY <1>1, <3>1, <3>3, <3>4 DEF SnapIsNow, Applying, Straight, DocsInPlace
    <3>. QED BY <3>3, <3>5, <3>6, <3>7 DEF Straight, FilesStill
  <2>. QED BY <2>2, <2>3 DEF Stays
<1>5. ASSUME NEW i \in Folder, NEW e \in Folder, AdoptFolder(i, e, p) PROVE Stays
  <2>1. /\ i \in Absent /\ Told({i}) /\ e \in Named(Parent(p), Last(p))
        /\ node' = [node EXCEPT ![i] =
                      [state |-> "deleted", parent |-> Parent(p), name |-> Copy(Last(p))]]
        /\ Becomes(Recorded(Here, e, p)) /\ Strays(Front(p))
    BY <1>5 DEF AdoptFolder, NextId
  <2>2. /\ Facts' /\ i \notin Live /\ Live' = Live
        /\ \A j \in Live : node'[j] = node[j]
    BY <1>1, <2>1, FactsMade
  <2>3. ASSUME ~astray' PROVE Straight' /\ FilesStill
    <3>1. /\ Straight /\ p \in Paths
          /\ Known(Parent(p)) /\ p = Append(PathOf(Parent(p)), Last(p))
          /\ \A j \in Folder : frow[j] # p
          /\ frow[e] = None
      BY <1>1, <1>3, <2>1, <2>3, DirPlace, NewDirTyped DEF IInv
    <3>2. UNCHANGED <<at, drow>> /\ frow' = [frow EXCEPT ![e] = p]
      BY <2>1, <3>1, PlainlyRecorded DEF MustMove, Here
    <3>3. \A f : Known(f) => Known(f)' /\ PathOf(f)' = PathOf(f)
      BY <3>1, <3>2, KnownStays
    <3>4. LiveParents'
      BY <2>2, <3>1 DEF Straight, LiveParents, Exists
    <3>5. RowsInPlace'
      <4>1. /\ e \in Live /\ node[e].parent = Parent(p) /\ node[e].name = Last(p)
            /\ frow'[e] = p
        BY <2>1, <3>2 DEF Named, Children, IInv, Typed, LocalOK
      <4>2. \A j \in Folder \ {e} : frow'[j] = frow[j]
        BY <3>2 DEF IInv, Typed, LocalOK
      <4>. QED BY <2>2, <3>1, <3>3, <4>1, <4>2 DEF Straight, RowsInPlace
    <3>6. SnapIsNow' /\ DocsInPlace'
      BY <1>1, <3>1, <3>2, <3>3 DEF SnapIsNow, Applying, Straight, DocsInPlace
    <3>. QED BY <3>2, <3>4, <3>5, <3>6 DEF Straight, FilesStill
  <2>. QED BY <2>2, <2>3 DEF Stays
<1>6. ASSUME NEW i \in Folder, NEW e \in Folder, CreateBeside(i, e, p) \/ AdoptFails(i, e, p)
      PROVE  Stays
  <2>1. /\ i \in Absent /\ Told({i}) /\ e \in Named(Parent(p), Last(p))
        /\ Named(Parent(p), Copy(Last(p))) = {}
        /\ node' = [node EXCEPT ![i] =
                      [state |-> "live", parent |-> Parent(p), name |-> Copy(Last(p))]]
        /\ MustMove(Here, e, p) /\ Strays(Front(p))
    BY <1>6 DEF CreateBeside, AdoptFails, NextId, Give, Refused, Fails
  <2>2. Facts'
    BY <1>1, <2>1, FactsMade
  <2>3. astray'
    BY <1>1, <1>3, <2>1, DirPlace DEF MustMove, Here
  <2>. QED BY <2>2, <2>3 DEF Stays
<1>. QED BY <1>2, <1>4, <1>5, <1>6
(* A file is uploaded to where it lies; what is missing has neither row nor *)
(* object from then on.                                                     *)
LEMMA FilesStay ==
  ASSUME StayInv, NEW d \in Doc, PushDoc(d) \/ PushFails(d) \/ DeleteMissing(d)
  PROVE  Stays
<1>. USE DEF StayInv
<1>1. UNCHANGED <<node, at, frow, phase>> /\ phase = "files"
  BY DEF PushDoc, PushFails, DeleteMissing, server, local
<1>2. UNCHANGED Live /\ UNCHANGED Absent
  BY <1>1 DEF Live, Absent
<1>3. Facts'
  <2>1. \A i \in Absent : news'[i] = news[i]
    BY ItemAssumption DEF PushDoc, PushFails, DeleteMissing, server, Told, Absent, Item
  <2>. QED BY <1>1, <1>2, <2>1 DEF Facts, SiblingsDiffer, AbsentUntold, GoneForGood
<1>4. ASSUME ~astray' PROVE Straight'
  <2>1. ~astray /\ (PushDoc(d) => at[d] \in Tracked \cup {Top})
    <3>1. UNCHANGED astray \/ PushDoc(d)
      BY DEF PushFails, DeleteMissing
    <3>2. PushDoc(d) => Strays(at[d])
      BY DEF PushDoc
    <3>. QED BY <1>4, <3>1, <3>2 DEF Strays, IInv, Typed, CountOK
  <2>2. LiveParents' /\ RowsInPlace' /\ SnapIsNow'
    BY <1>1, <1>2, <2>1 DEF Straight, LiveParents, RowsInPlace, SnapIsNow, Applying, Exists,
                            Known, PathOf
  <2>3. /\ \A e \in Doc \ {d} : home'[e] = home[e] /\ drow'[e] = drow[e]
        /\ \/ home'[d] = home[d] /\ drow'[d] = drow[d]
           \/ home'[d] = None /\ drow'[d] = None
           \/ at[d] # None /\ drow'[d] = at[d] /\ Known(home'[d]) /\ PathOf(home'[d]) = at[d]
    <3>1. CASE PushDoc(d)
      <4>. DEFINE f == FolderAt(at[d])
      <4>1. Known(f) /\ PathOf(f) = at[d]
        <5>1. CASE at[d] \in Tracked
          BY <5>1, FolderAssumption DEF FolderAt, Tracked, PathOf, Known
        <5>2. CASE at[d] \notin Tracked
          BY <2>1, <3>1, <5>2 DEF FolderAt, PathOf, Known
        <5>. QED BY <5>1, <5>2
      <4>2. /\ at[d] # None /\ home' = [home EXCEPT ![d] = f]
            /\ drow' = [drow EXCEPT ![d] = at[d]]
        BY <3>1 DEF PushDoc
      <4>. HIDE DEF f
      <4>. QED BY <4>1, <4>2 DEF IInv, Typed, ServerOK, LocalOK
    <3>2. CASE PushFails(d)
      BY <3>2 DEF PushFails, server, local
    <3>3. CASE DeleteMissing(d)
      BY <3>3 DEF DeleteMissing, IInv, Typed, ServerOK, LocalOK
    <3>. QED BY <3>1, <3>2, <3>3
  <2>4. DocsInPlace'
    BY <1>1, <2>1, <2>3 DEF Straight, DocsInPlace, Known, PathOf
  <2>. QED BY <2>2, <2>4 DEF Straight
<1>. QED BY <1>1, <1>3, <1>4 DEF Stays, FilesStill

(* Between its phases a pass moves nothing.                                 *)
LEMMA PhasesStay ==
  ASSUME StayInv, EndVerify \/ Scan \/ ScanFiles \/ EndPass
  PROVE  Stays
<1>. USE DEF StayInv
<1>1. UNCHANGED <<node, home, local, astray>> /\ phase' \in {"idle", "push", "files"}
  BY DEF EndVerify, Scan, ScanFiles, EndPass, Rest, server
<1>2. \A x \in Item : news[x] = "none" => news'[x] = "none"
  BY DEF EndVerify, Scan, ScanFiles, EndPass, Unread, server
<1>3. Facts'
  BY <1>1, <1>2, FactsStay
<1>4. ~astray => Straight'
  BY <1>1, PlacesStay DEF Applying, local
<1>. QED BY <1>1, <1>3, <1>4 DEF Stays, FilesStill, local

(* So no step moves a file, unless something is astray.                     *)
LEMMA StepStays ==
  ASSUME StayInv, Next
  PROVE  Stays
<1>1. CASE OtherClients \/ OtherClientsFiles
  BY <1>1, OthersStay
<1>2. CASE User
  BY <1>2, UserStays
<1>3. CASE Accident
  BY <1>3, AccidentStays
<1>4. CASE StartVerify \/ StartFull
  BY <1>4, StartStays
<1>5. CASE Work
  BY <1>5, FoldersStay, DocsStay, ParentsStay, DirsStay, FilesStay, PhasesStay DEF Work
<1>. QED BY <1>1, <1>2, <1>3, <1>4, <1>5 DEF Next

(* At the start a folder that is in step already is under the root.         *)
LEMMA StartsStraight == Init => StayInv
<1>. SUFFICES ASSUME Init PROVE StayInv
  OBVIOUS
<1>1. PICK s \in Scenarios, name \in Given :
        LET old == {i \in Folder : s.instep /\ \A j \in Folder : i <= j}
        IN /\ node = [i \in Folder |->
                IF i \in old THEN [state |-> "live", parent |-> Root, name |-> name]
                ELSE Nothing]
           /\ frow = [i \in Folder |-> IF i \in old THEN <<name>> ELSE None]
  BY DEF Init
<1>. DEFINE old == {i \in Folder : s.instep /\ \A j \in Folder : i <= j}
<1>2. /\ node = [i \in Folder |->
                  IF i \in old THEN [state |-> "live", parent |-> Root, name |-> name]
                  ELSE Nothing]
      /\ frow = [i \in Folder |-> IF i \in old THEN <<name>> ELSE None]
      /\ \A i, j \in old : i = j
  BY <1>1, FolderAssumption
<1>. HIDE DEF old
<1>3. Live \subseteq old
  BY <1>2 DEF Live, Nothing
<1>4. SiblingsDiffer
  BY <1>2, <1>3 DEF SiblingsDiffer
<1>5. AbsentUntold /\ GoneForGood
  BY DEF Init, AbsentUntold, GoneForGood, Absent, Item
<1>6. LiveParents /\ RowsInPlace
  <2>1. \A i \in old : i \in Folder => i \in Live /\ node[i].parent = Root /\ node[i].name = name
    BY <1>2 DEF Live
  <2>2. Append(Top, name) = <<name>> /\ Known(Root) /\ PathOf(Root) = Top
    BY DEF Top, Known, PathOf
  <2>. QED BY <1>2, <1>3, <2>1, <2>2 DEF LiveParents, RowsInPlace, Exists, Live
<1>7. SnapIsNow /\ DocsInPlace
  BY DEF Init, SnapIsNow, DocsInPlace, Applying
<1>. QED BY <1>4, <1>5, <1>6, <1>7, Start DEF StayInv, Facts, Straight

(* A file of the user leaves its directory only when another client has     *)
(* moved or deleted something, or the client itself sent something to the   *)
(* top whose directory had no row: no fetched folder, resolved parent,      *)
(* adoption, retry or death of the process moves it else.                   *)
THEOREM FilesAlwaysStay == Spec => UserFilesStay
<1>1. StayInv /\ [Next]_vars => StayInv'
  <2>1. StayInv /\ Next => StayInv'
    BY StepStays, StepKeeps DEF StayInv, Stays
  <2>2. StayInv /\ UNCHANGED vars => StayInv'
    <3>. SUFFICES ASSUME StayInv, UNCHANGED vars PROVE StayInv'
      OBVIOUS
    <3>1. IInv'
      BY StepKeeps DEF StayInv
    <3>2. Facts'
      BY FactsStay DEF vars, server, pass
    <3>3. ~astray => Straight'
      BY PlacesStay DEF StayInv, vars, server, local, pass, Applying
    <3>. QED BY <3>1, <3>2, <3>3 DEF StayInv, vars
  <2>. QED BY <2>1, <2>2
<1>2. StayInv /\ [Next]_vars
        => [\A d \in Doc : at[d] # None /\ at'[d] # at[d] => User \/ astray']_vars
  <2>. SUFFICES ASSUME StayInv, Next, NEW d \in Doc, at[d] # None, at'[d] # at[d], ~astray'
                PROVE  User
    OBVIOUS
  <2>. QED BY StepStays DEF Stays, FilesStill
<1>. QED BY <1>1, <1>2, StartsStraight, PTL DEF Spec, UserFilesStay
-----------------------------------------------------------------------------
(* What a client writes whose user does nothing.                            *)

Heads(p) == {SubSeq(p, 1, n) : n \in 1 .. Len(p)}
RowsOf(h) == {h.frow[i] : i \in Folder} \ {None}

(* The folders whose directories are where their rows say: those of the     *)
(* deleted folders go one after the other once the others are placed.       *)
Standing == {i \in Folder : i \notin gone \/ todo \cap Folder # {}}

(* What is on the disk is recorded, and what is recorded is on the disk.    *)
FilesRecorded(h) ==
  h.at = h.drow /\ \A d \in Doc : h.at[d] \in RowsOf(h) \cup {Top, None}
Mirror(h, standing) ==
  /\ h.dirs \subseteq RowsOf(h)
  /\ \A i \in standing : h.frow[i] # None =>
       h.frow[i] \in h.dirs /\ Heads(h.frow[i]) \subseteq RowsOf(h)
  /\ FilesRecorded(h)

(* Nothing is left for the part of a pass that looks for the user's work.   *)
NothingFound ==
  /\ phase \in {"idle", "verify"} => gone = {}
  /\ phase \in {"idle", "push", "files"} => todo = {} /\ gone = {} /\ mkdirs = {}

Quiet == spent.user + spent.removals + spent.stops = 0 /\ ~crossed
IdleInv == IInv /\ crossed \in BOOLEAN /\ (Quiet => Mirror(Here, Standing) /\ NothingFound)

(* What a path begins with is a path, and the path lies at or under it.     *)
LEMMA HeadOfAPath ==
  ASSUME NEW p \in Dirs, NEW n \in 1 .. Len(p)
  PROVE  SubSeq(p, 1, n) \in Paths /\ IsPrefix(SubSeq(p, 1, n), p)
<1>1. p \in Seq(Names) /\ Len(p) \in Nat
  BY DEF Dirs
<1>2. \A k \in 1 .. n : p[k] \in Names
  BY <1>1, ElementOfSeq
<1>3. SubSeq(p, 1, n) \in Seq(Names) /\ Len(SubSeq(p, 1, n)) = n
  BY <1>1, <1>2, SubSeqProperties
<1>4. SubSeq(SubSeq(p, 1, n), 1, n) = SubSeq(p, 1, n)
  BY <1>3, SubSeqFull
<1>. QED BY <1>1, <1>3, <1>4 DEF Paths, Dirs, Top, IsPrefix

(* A path begins with what its parent begins with, and ends with itself.    *)
LEMMA HeadsOfFront ==
  ASSUME NEW p \in Paths
  PROVE  Heads(p) = Heads(Front(p)) \cup {p}
<1>1. Front(p) \in Seq(Names) /\ Last(p) \in Names /\ p = Append(Front(p), Last(p))
  BY FrontAndLast, CutAndJoined DEF Dirs
<1>. DEFINE f == Front(p)
            l == Last(p)
<1>. HIDE DEF f, l
<1>2. f \in Seq(Names) /\ l \in Names /\ p = Append(f, l)
  BY <1>1 DEF f, l
<1>3. p \in Seq(Names) /\ Len(p) = Len(f) + 1 /\ Len(f) \in Nat
  BY <1>2
<1>4. SubSeq(p, 1, Len(p)) = p
  BY <1>3, SubSeqFull
<1>5. ASSUME NEW n \in 1 .. Len(f) PROVE SubSeq(p, 1, n) = SubSeq(f, 1, n)
  <2>1. p = f \o <<l>> /\ <<l>> \in Seq(Names) /\ 1 \in 1 .. Len(f)
    BY <1>2, <1>3, AppendIsConcat
  <2>. QED BY <1>2, <2>1, SubSeqOfConcat1
<1>6. Heads(p) = {SubSeq(p, 1, n) : n \in 1 .. Len(f)} \cup {p}
  <2>1. 1 .. Len(p) = 1 .. Len(f) \cup {Len(p)}
    BY <1>3
  <2>. QED BY <1>4, <2>1 DEF Heads
<1>7. {SubSeq(p, 1, n) : n \in 1 .. Len(f)} = Heads(f)
  BY <1>5 DEF Heads
<1>. QED BY <1>6, <1>7 DEF f

(* What lies under what lies under a path lies under it.                    *)
LEMMA UnderUnder ==
  ASSUME NEW p \in Dirs, NEW q \in Dirs, NEW r \in Dirs, IsPrefix(p, q), IsPrefix(q, r)
  PROVE  IsPrefix(p, r)
<1>1. PICK s \in Dirs : q = p \o s
  BY UnderIsBehind
<1>2. PICK t \in Dirs : r = q \o t
  BY UnderIsBehind
<1>3. r = p \o (s \o t)
  BY <1>1, <1>2, ConcatAssociative DEF Dirs
<1>. QED BY <1>3, BehindIsUnder

(* A path lies at itself.                                                   *)
LEMMA SelfUnder ==
  ASSUME NEW p \in Dirs
  PROVE  At(p, p)
<1>1. << >> \in Dirs /\ p \o << >> = p
  BY EmptySeq, ConcatEmptySeq DEF Dirs
<1>2. IsPrefix(p, p)
  BY <1>1, BehindIsUnder
<1>. QED BY <1>2, NoneIsNoPath DEF At

(* Moving a directory changes what its paths begin with.                    *)
LEMMA ShiftedJoined ==
  ASSUME NEW from \in Dirs, NEW to, NEW s \in Dirs
  PROVE  Shifted(from \o s, from, to) = to \o s
<1>1. from \o s \in Dirs /\ IsPrefix(from, from \o s)
  BY BehindIsUnder
<1>2. At(from, from \o s)
  BY <1>1, NoneIsNoPath DEF At
<1>3. Behind(from, from \o s) = s
  <2>1. Behind(from, from \o s) \in Dirs /\ from \o s = from \o Behind(from, from \o s)
    BY <1>1, UnderIsBehind
  <2>. HIDE DEF Behind
  <2>. QED BY <2>1, SameStart
<1>. QED BY <1>2, <1>3 DEF Shifted, Behind

(* What a joined path begins with, past its first part.                     *)
LEMMA HeadOfJoined ==
  ASSUME NEW p \in Dirs, NEW s \in Dirs, NEW k \in 1 .. Len(s)
  PROVE  /\ SubSeq(p \o s, 1, Len(p) + k) = p \o SubSeq(s, 1, k)
         /\ Len(p) + k \in 1 .. Len(p \o s)
<1>1. p \in Seq(Names) /\ s \in Seq(Names) /\ Len(p) \in Nat /\ Len(s) \in Nat
  BY DEF Dirs
<1>2. p \o s \in Seq(Names) /\ Len(p \o s) = Len(p) + Len(s)
  BY <1>1, ConcatProperties
<1>3. SubSeq(p \o s, 1, Len(p)) = p
  <2>1. CASE Len(p) = 0
    BY <1>1, <1>2, <2>1, SubSeqEmpty, EmptySeq
  <2>2. CASE Len(p) # 0
    BY <1>1, <2>2, SubSeqOfConcat1, SubSeqFull
  <2>. QED BY <2>1, <2>2
<1>4. SubSeq(p \o s, Len(p) + 1, Len(p) + k) = SubSeq(s, 1, k)
  <2>1. /\ Len(p) + 1 \in Len(p) + 1 .. Len(p) + Len(s)
        /\ Len(p) + k \in Len(p) + 1 .. Len(p) + Len(s)
        /\ Len(p) + 1 - Len(p) = 1 /\ Len(p) + k - Len(p) = k
    BY <1>1
  <2>. QED BY <1>1, <2>1, SubSeqOfConcat2
<1>5. SubSeq(p \o s, 1, Len(p)) \o SubSeq(p \o s, Len(p) + 1, Len(p) + k)
        = SubSeq(p \o s, 1, Len(p) + k)
  <2>1. /\ 1 \in 1 .. Len(p \o s) + 1 /\ Len(p) \in 1 - 1 .. Len(p \o s)
        /\ Len(p) + k \in Len(p) .. Len(p \o s)
    BY <1>1, <1>2
  <2>. QED BY <1>2, <2>1, ConcatAdjacentSubSeq
<1>. QED BY <1>1, <1>2, <1>3, <1>4, <1>5

(* What a moved path begins with is what the destination begins with, or    *)
(* was moved along.                                                         *)
LEMMA ShiftedHeads ==
  ASSUME NEW from \in Dirs, NEW to \in Dirs, NEW q \in Dirs,
         NEW x \in Heads(Shifted(q, from, to))
  PROVE  x \in Heads(to) \/ \E y \in Heads(q) : x = Shifted(y, from, to)
<1>1. CASE ~At(from, q)
  <2>1. x \in Heads(q)
    BY <1>1 DEF Shifted
  <2>2. x \in Dirs /\ IsPrefix(x, q)
    BY <2>1, HeadOfAPath DEF Heads, Paths
  <2>3. ~At(from, x)
    BY <1>1, <2>2, UnderUnder, NoneIsNoPath DEF At
  <2>. QED BY <2>1, <2>3 DEF Shifted
<1>2. CASE At(from, q)
  <2>1. PICK s \in Dirs : q = from \o s
    BY <1>2, UnderIsBehind DEF At
  <2>2. PICK n \in 1 .. Len(to \o s) : x = SubSeq(to \o s, 1, n)
    <3>1. Shifted(q, from, to) = to \o s
      BY <2>1, ShiftedJoined
    <3>2. x \in Heads(to \o s)
      BY <3>1
    <3>. QED BY <3>2 DEF Heads
  <2>3. /\ to \in Seq(Names) /\ s \in Seq(Names) /\ Len(to) \in Nat /\ Len(s) \in Nat
        /\ Len(to \o s) = Len(to) + Len(s)
    BY ConcatProperties DEF Dirs
  <2>4. CASE n <= Len(to)
    <3>1. n \in 1 .. Len(to) /\ 1 \in 1 .. Len(to)
      BY <2>2, <2>3, <2>4
    <3>2. x = SubSeq(to, 1, n)
      BY <2>2, <2>3, <3>1, SubSeqOfConcat1
    <3>. QED BY <3>1, <3>2 DEF Heads
  <2>5. CASE n > Len(to)
    <3>. DEFINE k == n - Len(to)
                u == SubSeq(s, 1, k)
                y == SubSeq(q, 1, Len(from) + k)
    <3>1. k \in 1 .. Len(s) /\ n = Len(to) + k
      BY <2>2, <2>3, <2>5
    <3>. HIDE DEF k
    <3>2. u \in Dirs
      BY <3>1, HeadOfAPath DEF Paths
    <3>3. x = to \o u
      BY <2>2, <3>1, HeadOfJoined
    <3>4. y = from \o u /\ y \in Heads(q)
      BY <2>1, <3>1, HeadOfJoined DEF Heads
    <3>. HIDE DEF u, y
    <3>5. x = Shifted(y, from, to)
      BY <3>2, <3>3, <3>4, ShiftedJoined
    <3>. QED BY <3>4, <3>5
  <2>6. n \in Nat
    BY <2>3
  <2>. QED BY <2>3, <2>4, <2>5, <2>6
<1>. QED BY <1>1, <1>2

(* record_folder keeps disk and rows together, as long as it takes no row   *)
(* from another folder.                                                     *)
LEMMA RecordedMirrors ==
  ASSUME NEW h \in Heres, NEW i \in Folder, NEW p \in Paths, Mirror(h, Folder),
         Front(p) \in RowsOf(h) \cup {Top}, ~Refused(h, i, p), ~Fails(h, i, p),
         \A j \in Folder : h.frow[j] # None => Recorded(h, i, p).frow[j] # None
  PROVE  Mirror(Recorded(h, i, p), Folder)
<1>. DEFINE from == h.frow[i]
            g == Recorded(h, i, p)
<1>1. /\ RowsOf(h) = h.dirs /\ \A q \in RowsOf(h) : Heads(q) \subseteq RowsOf(h)
      /\ FilesRecorded(h)
  BY DEF Mirror, RowsOf
<1>2. RowsOf(h) \subseteq Paths /\ None \notin Paths /\ p \in Dirs /\ p # Top
  BY NoneIsNoPath DEF Heres, RowsOf, Paths
<1>3. Heads(p) = Heads(Front(p)) \cup {p} /\ Heads(Front(p)) \subseteq RowsOf(h)
  <2>1. Heads(Top) = {}
    BY DEF Heads, Top
  <2>. QED BY <1>1, <2>1, HeadsOfFront
<1>4. CASE ~MustMove(h, i, p)
  <2>. DEFINE fr == [j \in Folder |-> IF j = i THEN p
                                      ELSE IF h.frow[j] = p THEN None ELSE h.frow[j]]
  <2>1. g = [h EXCEPT !.dirs = CreateDirs(@, p), !.frow = fr]
    BY <1>4 DEF Recorded
  <2>2. /\ g.frow = fr /\ g.dirs = CreateDirs(h.dirs, p) /\ g.at = h.at /\ g.drow = h.drow
    BY <2>1 DEF Heres
  <2>. HIDE DEF g
  <2>3. \A j \in Folder \ {i} : g.frow[j] = h.frow[j]
    BY <2>2 DEF g
  <2>4. RowsOf(g) = RowsOf(h) \cup {p}
    BY <1>2, <1>4, <2>2, <2>3 DEF RowsOf, MustMove
  <2>5. g.dirs = RowsOf(g)
    BY <1>1, <1>3, <2>2, <2>4 DEF CreateDirs, Heads
  <2>6. \A j \in Folder : g.frow[j] # None => Heads(g.frow[j]) \subseteq RowsOf(g)
    BY <1>1, <1>3, <2>2, <2>3, <2>4 DEF RowsOf
  <2>7. FilesRecorded(g)
    BY <1>1, <2>2, <2>4 DEF FilesRecorded
  <2>. QED BY <2>5, <2>6, <2>7 DEF Mirror, RowsOf, g
<1>5. CASE MustMove(h, i, p)
  <2>. DEFINE S(q) == Shifted(q, from, p)
              m == Moved(h, from, p)
              fr == Reparented(h.frow, from, p)
              dr == Reparented(h.drow, from, p)
  <2>1. from \in RowsOf(h) /\ from \in h.dirs /\ from \in Dirs /\ from # Top
    BY <1>1, <1>2, <1>5 DEF MustMove, RowsOf, Paths
  <2>2. ~At(from, p)
    BY <1>5, <2>1 DEF Refused, Fails, MoveFails
  <2>. HIDE DEF from
  <2>3. m = [h EXCEPT !.dirs = {S(q) : q \in CreateDirs(h.dirs, Front(p))},
                      !.at = [d \in Doc |-> S(h.at[d])]]
    BY <2>1 DEF Moved
  <2>4. g = [m EXCEPT !.dirs = CreateDirs(@, p), !.drow = dr,
                      !.frow = [j \in Folder |-> IF j = i THEN p
                                                 ELSE IF fr[j] = p THEN None ELSE fr[j]]]
    <3>1. Relocated(h, from, p) = [m EXCEPT !.frow = fr, !.drow = dr]
      BY <2>3 DEF Relocated, Heres
    <3>2. g = [Relocated(h, from, p) EXCEPT
                 !.dirs = CreateDirs(@, p),
                 !.frow = [j \in Folder |-> IF j = i THEN p ELSE IF @[j] = p THEN None ELSE @[j]]]
      BY <1>5 DEF Recorded, from
    <3>3. m = [dirs |-> m.dirs, at |-> m.at, frow |-> h.frow, drow |-> h.drow]
      BY <2>3 DEF Heres
    <3>. HIDE DEF g, fr, dr, m
    <3>. QED BY <3>1, <3>2, <3>3
  <2>5. /\ g.dirs = {S(q) : q \in CreateDirs(h.dirs, Front(p))} \cup Heads(p)
        /\ g.frow = [j \in Folder |-> IF j = i THEN p ELSE IF fr[j] = p THEN None ELSE fr[j]]
        /\ g.at = [d \in Doc |-> S(h.at[d])] /\ g.drow = dr
    BY <2>3, <2>4 DEF Heres, CreateDirs, Heads
  <2>. HIDE DEF m, g
  <2>6. \A q \in RowsOf(h) : S(q) \in Paths
    BY <1>2, <2>1, ShiftedIsAPath DEF Paths
  <2>7. S(from) = p /\ S(None) = None
    <3>1. << >> \in Dirs /\ from \o << >> = from /\ p \o << >> = p
      BY <1>2, <2>1, EmptySeq, ConcatEmptySeq DEF Dirs
    <3>2. Shifted(from \o << >>, from, p) = p \o << >>
      BY <2>1, <3>1, ShiftedJoined
    <3>3. Shifted(None, from, p) = None
      BY DEF Shifted, At
    <3>. QED BY <3>1, <3>2, <3>3
  <2>8. ASSUME NEW j \in Folder
        PROVE  /\ g.frow[j] = S(h.frow[j])
               /\ h.frow[j] # None => ~At(p, h.frow[j]) \/ At(from, h.frow[j])
    <3>1. h.frow \in [Folder -> Paths \cup {None}]
      BY DEF Heres
    <3>2. h.frow[j] # None => g.frow[j] # None
      BY DEF g
    <3>3. fr[j] = IF At(p, h.frow[j]) /\ ~At(from, h.frow[j]) THEN None ELSE S(h.frow[j])
      BY <3>1 DEF Reparented
    <3>4. g.frow[j] = IF j = i THEN p ELSE IF fr[j] = p THEN None ELSE fr[j]
      BY <2>5
    <3>5. h.frow[i] = from
      BY DEF from
    <3>6. ~At(from, None) /\ ~At(p, None)
      BY DEF At
    <3>7. At(from, from)
      BY <2>1, SelfUnder
    <3>. HIDE DEF S, fr
    <3>. QED BY <2>7, <3>2, <3>3, <3>4, <3>5, <3>6, <3>7
  <2>9. RowsOf(g) = {S(q) : q \in RowsOf(h)}
    <3>1. \A j \in Folder : g.frow[j] # None => h.frow[j] \in RowsOf(h)
      BY <2>7, <2>8 DEF RowsOf
    <3>2. \A j \in Folder : h.frow[j] \in RowsOf(h) => g.frow[j] \in RowsOf(g)
      BY <1>2, <2>6, <2>8 DEF RowsOf
    <3>. HIDE DEF S
    <3>. QED BY <2>8, <3>1, <3>2 DEF RowsOf
  <2>10. \A x \in Heads(Front(p)) : S(x) = x
    <3>. SUFFICES ASSUME NEW x \in Heads(Front(p)) PROVE ~At(from, x)
      BY DEF Shifted
    <3>1. x \in Heads(p)
      BY <1>3
    <3>2. x \in Dirs /\ IsPrefix(x, p)
      BY <1>2, <3>1, HeadOfAPath DEF Heads, Paths
    <3>. QED BY <1>2, <2>1, <2>2, <3>2, UnderUnder, NoneIsNoPath DEF At
  <2>11. Heads(p) \subseteq RowsOf(g)
    <3>1. p \in RowsOf(g)
      BY <2>1, <2>7, <2>9
    <3>. HIDE DEF S
    <3>. QED BY <1>3, <2>9, <2>10, <3>1
  <2>12. g.dirs = RowsOf(g)
    <3>1. CreateDirs(h.dirs, Front(p)) = RowsOf(h)
      BY <1>1, <1>3 DEF CreateDirs, Heads
    <3>. QED BY <2>5, <2>9, <2>11, <3>1
  <2>13. \A y \in RowsOf(g) : Heads(y) \subseteq RowsOf(g)
    <3>. SUFFICES ASSUME NEW q \in RowsOf(h), NEW x \in Heads(S(q)) PROVE x \in RowsOf(g)
      BY <2>9
    <3>1. q \in Dirs
      BY <1>2 DEF Paths
    <3>2. x \in Heads(p) \/ \E y \in Heads(q) : x = S(y)
      BY <1>2, <2>1, <3>1, ShiftedHeads
    <3>. HIDE DEF S
    <3>. QED BY <1>1, <2>9, <2>11, <3>2
  <2>14. FilesRecorded(g)
    <3>1. ASSUME NEW d \in Doc
          PROVE  dr[d] = S(h.at[d]) /\ S(h.at[d]) \in RowsOf(g) \cup {Top, None}
      <4>1. h.drow[d] = h.at[d] /\ h.at[d] \in RowsOf(h) \cup {Top, None}
            /\ DOMAIN h.drow = Doc
        BY <1>1 DEF FilesRecorded, Heres
      <4>2. CASE h.at[d] \in RowsOf(h)
        <5>1. ~At(p, h.at[d]) \/ At(from, h.at[d])
          BY <2>8, <4>2 DEF RowsOf
        <5>. QED BY <2>9, <4>1, <4>2, <5>1 DEF Reparented
      <4>3. CASE h.at[d] = Top
        <5>1. ASSUME NEW q \in Dirs, q # Top PROVE ~At(q, Top)
          <6>1. Len(q) \in Nat /\ Len(q) # 0 /\ Len(Top) = 0
            BY <5>1 DEF Dirs, Top
          <6>. QED BY <6>1 DEF At, IsPrefix
        <5>2. ~At(p, Top) /\ ~At(from, Top)
          BY <1>2, <2>1, <5>1
        <5>. QED BY <4>1, <4>3, <5>2 DEF Reparented, Shifted
      <4>4. CASE h.at[d] = None
        BY <2>7, <4>1, <4>4 DEF Reparented, At
      <4>. QED BY <4>1, <4>2, <4>3, <4>4
    <3>2. dr = [d \in Doc |-> dr[d]]
      BY DEF Reparented, Heres
    <3>. HIDE DEF S, dr
    <3>. QED BY <2>5, <3>1, <3>2 DEF FilesRecorded
  <2>. QED BY <2>12, <2>13, <2>14 DEF Mirror, RowsOf, g
<1>. QED BY <1>4, <1>5

(* What a step promises while the user is passive: the disk stays the       *)
(* mirror of the rows, nothing is found to upload, nothing is written.      *)
StillQuiet == Quiet' => Quiet /\ Mirror(Here, Standing)' /\ NothingFound'
Writes == <<node, home>>' # <<node, home>>

(* Nobody becomes passive again.                                            *)
LEMMA QuietBefore ==
  ASSUME IdleInv, crossed => crossed'
  PROVE  /\ UNCHANGED spent => (Quiet' => Quiet)
         /\ \A kind \in {"remote", "failures"} : Spend(kind) => (Quiet' => Quiet)
         /\ \A kind \in {"user", "removals", "stops"} : Spend(kind) => ~Quiet'
<1>1. spent \in Spent
  BY DEF IdleInv, IInv, Typed, CountOK
<1>2. UNCHANGED spent => (Quiet' => Quiet)
  BY DEF Quiet
<1>3. \A kind \in {"remote", "failures"} : Spend(kind) => (Quiet' => Quiet)
  BY <1>1 DEF Spend, Spent, Quiet
<1>4. \A kind \in {"user", "removals", "stops"} : Spend(kind) => ~Quiet'
  BY <1>1 DEF Spend, Spent, Quiet
<1>. QED BY <1>2, <1>3, <1>4

(* Disk and rows that nobody touches stay as they are.                      *)
LEMMA MirrorStays ==
  ASSUME UNCHANGED local, Mirror(Here, Standing), Standing' \subseteq Standing
  PROVE  Mirror(Here, Standing)'
BY DEF local, Here, Mirror, RowsOf, FilesRecorded

(* The folders with less to do.                                             *)
LEMMA FewerStand ==
  ASSUME todo' \subseteq todo, UNCHANGED gone
  PROVE  Standing' \subseteq Standing
BY DEF Standing

(* A folder is recorded in a directory that has a row, and no row is taken. *)
LEMMA RecordingMirrors ==
  ASSUME IInv, Mirror(Here, Folder), NEW i \in Folder, NEW f \in Folder \cup {Root}, Known(f),
         NEW name \in Names,
         ~Refused(Here, i, Append(PathOf(f), name)), ~Fails(Here, i, Append(PathOf(f), name)),
         Becomes(Recorded(Here, i, Append(PathOf(f), name))), ~RowTaken
  PROVE  Mirror(Here, Folder)'
<1>. DEFINE p == Append(PathOf(f), name)
            g == Recorded(Here, i, p)
<1>1. PathOf(f) \in Dirs /\ p \in Paths
  BY Placing, Joined DEF IInv
<1>2. Front(p) = PathOf(f)
  <2>1. PathOf(f) \in Seq(Names) /\ name \in Names
    BY <1>1 DEF Dirs
  <2>. QED BY <2>1 DEF Front
<1>3. Front(p) \in RowsOf(Here) \cup {Top}
  BY <1>2, FolderAssumption DEF RowsOf, Here, Known, PathOf
<1>4. Here \in Heres
  BY HereTyped DEF IInv, Typed
<1>. HIDE DEF p, g
<1>7. \A j \in Folder : Here.frow[j] # None => g.frow[j] # None
  BY DEF RowTaken, Here, Becomes, g, p
<1>8. Mirror(g, Folder)
  BY <1>1, <1>3, <1>4, <1>7, RecordedMirrors DEF g, p
<1>9. dirs' = g.dirs /\ at' = g.at /\ frow' = g.frow /\ drow' = g.drow
  BY DEF Becomes, g, p
<1>10. RowsOf(Here)' = RowsOf(g)
  BY <1>9 DEF RowsOf, Here
<1>11. FilesRecorded(Here)'
  BY <1>8, <1>9, <1>10 DEF Mirror, FilesRecorded, Here
<1>. QED BY <1>8, <1>9, <1>10, <1>11 DEF Mirror, Here

(* The other clients touch neither disk nor rows.                           *)
LEMMA OthersQuiet ==
  ASSUME IdleInv, OtherClients \/ OtherClientsFiles
  PROVE  StillQuiet
<1>1. UNCHANGED <<local, pass, crossed>> /\ Spend("remote")
  BY DEF OtherClients, OtherClientsFiles, RemoteCreate, RemoteMove, RemoteDelete, RemotePut
<1>2. Quiet' => Quiet
  BY <1>1, QuietBefore
<1>3. Standing' \subseteq Standing
  BY <1>1, FewerStand DEF pass
<1>. QED BY <1>1, <1>2, <1>3, MirrorStays DEF StillQuiet, IdleInv, NothingFound, pass

(* The user and an end of the process are what is excepted.                 *)
LEMMA NotQuiet ==
  ASSUME IdleInv, User \/ Accident
  PROVE  StillQuiet
<1>1. CASE User
  <2>1. UNCHANGED crossed /\ (Spend("user") \/ Spend("removals"))
    BY <1>1 DEF User, UserMkdir, UserPut, UserRemove
  <2>. QED BY <2>1, QuietBefore DEF StillQuiet
<1>2. CASE Accident
  <2>1. (crossed => crossed') /\ Spend("stops")
    <3>1. CASE Stop
      BY <3>1 DEF Stop
    <3>2. ASSUME NEW i \in Folder, DieMoving(i)
          PROVE  (crossed => crossed') /\ Spend("stops")
      <4>1. Crosses(RowTaken) /\ Spend("stops")
        BY <3>2 DEF DieMoving
      <4>. QED BY <4>1 DEF Crosses
    <3>. QED BY <1>2, <3>1, <3>2 DEF Accident
  <2>. QED BY <2>1, QuietBefore DEF StillQuiet
<1>. QED BY <1>1, <1>2

(* A pass begins with every folder standing.                                *)
LEMMA StartQuiet ==
  ASSUME IdleInv, StartVerify \/ StartFull
  PROVE  StillQuiet /\ ~Writes
<1>1. /\ phase = "idle" /\ UNCHANGED <<node, home, local, mkdirs, spent, crossed>>
      /\ phase' \in {"verify", "full"} /\ (phase' = "verify" => gone' = {})
  BY DEF StartVerify, StartFull, Fetch
<1>2. Quiet' => Quiet
  BY <1>1, QuietBefore
<1>3. ASSUME Quiet PROVE Mirror(Here, Standing)' /\ NothingFound'
  <2>1. gone = {} /\ Mirror(Here, Standing)
    BY <1>1, <1>3 DEF IdleInv, NothingFound
  <2>2. Standing' \subseteq Standing
    BY <2>1 DEF Standing
  <2>. QED BY <1>1, <2>1, <2>2, MirrorStays DEF NothingFound
<1>. QED BY <1>1, <1>2, <1>3 DEF StillQuiet, Writes

(* The folders: placed with their rows, refused, or taken off the disk with *)
(* everything in them.                                                      *)
LEMMA FoldersQuiet ==
  ASSUME IdleInv, NEW i \in Folder,
         PlaceFolder(i) \/ RefuseFolder(i) \/ FailFolder(i) \/ RemoveFolder(i)
  PROVE  StillQuiet /\ ~Writes
<1>. USE DEF StillQuiet, IdleInv
<1>1. ASSUME PlaceFolder(i) PROVE StillQuiet /\ ~Writes
  <2>1. /\ Applying /\ IsNext(i) /\ Known(snap[i].parent) /\ Crosses(RowTaken)
        /\ ~Refused(Here, i, Target(i)) /\ ~Fails(Here, i, Target(i))
        /\ Becomes(Recorded(Here, i, Target(i)))
        /\ UNCHANGED <<node, home, phase, gone, mkdirs, spent>>
    BY <1>1 DEF PlaceFolder, Unchanging, server
  <2>2. Quiet' => Quiet /\ ~RowTaken
    BY <2>1, QuietBefore DEF Crosses, Quiet
  <2>3. ASSUME Quiet, ~RowTaken PROVE Mirror(Here, Folder)'
    <3>1. Standing = Folder
      BY <2>1 DEF Standing, IsNext
    <3>2. snap[i].parent \in Folder \cup {Root} /\ snap[i].name \in Names
      BY <2>1 DEF IInv, Typed, PassOK, SnapOK, IsNext
    <3>. QED BY <2>1, <2>3, <3>1, <3>2, RecordingMirrors DEF Target
  <2>4. Mirror(Here, Folder)' => Mirror(Here, Standing)'
    BY DEF Mirror, Standing
  <2>5. Quiet => NothingFound'
    BY <2>1 DEF NothingFound, Applying
  <2>. QED BY <2>1, <2>2, <2>3, <2>4, <2>5 DEF Writes
<1>2. ASSUME RefuseFolder(i) PROVE StillQuiet /\ ~Writes
  <2>1. /\ Applying /\ todo' \subseteq todo
        /\ UNCHANGED <<node, home, local, phase, gone, mkdirs, spent, crossed>>
    BY <1>2 DEF RefuseFolder, Placed, Unchanging, server
  <2>2. (Quiet' => Quiet) /\ Standing' \subseteq Standing
    BY <2>1, QuietBefore, FewerStand
  <2>3. Quiet => Mirror(Here, Standing)'
    BY <2>1, <2>2, MirrorStays
  <2>. QED BY <2>1, <2>2, <2>3 DEF NothingFound, Applying, Writes
<1>3. ASSUME FailFolder(i) PROVE StillQuiet /\ ~Writes
  BY <1>3 DEF FailFolder, Abort, Crosses, Quiet, Writes
<1>4. ASSUME RemoveFolder(i) PROVE StillQuiet /\ ~Writes
  <2>. DEFINE p == frow[i]
              inside(q) == p # None /\ At(p, q)
  <2>1. /\ phase = "full" /\ todo \cap Folder = {} /\ i \in gone /\ gone' = gone \ {i}
        /\ dirs' = {q \in dirs : ~inside(q)}
        /\ at' = [d \in Doc |-> IF inside(at[d]) THEN None ELSE at[d]]
        /\ drow' = [d \in Doc |-> IF inside(drow[d]) THEN None ELSE drow[d]]
        /\ frow' = [frow EXCEPT ![i] = None]
        /\ Crosses(\E j \in Folder \ gone : frow[i] # None /\ Under(frow[i], frow[j]))
        /\ UNCHANGED <<node, home, phase, todo, mkdirs, spent>>
    BY <1>4 DEF RemoveFolder, Unchanging, server
  <2>2. Quiet' => Quiet /\ \A j \in Folder \ gone : p # None => ~Under(p, frow[j])
    BY <2>1, QuietBefore DEF Crosses, Quiet
  <2>3. ASSUME Quiet, \A j \in Folder \ gone : p # None => ~Under(p, frow[j])
        PROVE  Mirror(Here, Standing)'
    <3>1. /\ frow \in [Folder -> Paths \cup {None}] /\ Apart(frow)
          /\ drow \in [Doc -> Dirs \cup {None}] /\ None \notin Dirs
      BY NoneIsNoPath DEF IInv, Typed, LocalOK
    <3>2. /\ dirs \subseteq RowsOf(Here)
          /\ \A j \in Folder \ gone : frow[j] # None =>
               frow[j] \in dirs /\ Heads(frow[j]) \subseteq RowsOf(Here)
          /\ at = drow /\ \A d \in Doc : at[d] \in RowsOf(Here) \cup {Top, None}
      BY <2>3, <2>1 DEF Mirror, FilesRecorded, Here, Standing
    <3>3. p # None => inside(p)
      BY <3>1, SelfUnder DEF Paths
    <3>4. \A q \in RowsOf(Here) : ~inside(q) => q \in RowsOf(Here)'
      BY <2>1, <3>1, <3>3 DEF RowsOf, Here
    <3>5. ASSUME NEW j \in Folder \ gone, frow[j] # None
          PROVE  ~inside(frow[j]) /\ \A q \in Heads(frow[j]) : ~inside(q)
      <4>1. frow[j] # p
        BY <2>1, <3>1, <3>5 DEF Apart
      <4>2. ~inside(frow[j])
        BY <2>3, <4>1 DEF Under
      <4>3. ASSUME NEW q \in Heads(frow[j]), inside(q) PROVE FALSE
        <5>1. frow[j] \in Dirs /\ p \in Dirs
          BY <3>1, <3>5, <4>3 DEF Paths
        <5>2. q \in Dirs /\ IsPrefix(q, frow[j])
          BY <5>1, HeadOfAPath DEF Heads, Paths
        <5>3. IsPrefix(p, frow[j])
          BY <4>3, <5>1, <5>2, UnderUnder DEF At
        <5>. QED BY <3>5, <4>2, <4>3, <5>3 DEF At
      <4>. QED BY <4>2, <4>3
    <3>6. dirs' \subseteq RowsOf(Here)'
      BY <2>1, <3>2, <3>4
    <3>7. ASSUME NEW j \in Standing', frow'[j] # None
          PROVE  frow'[j] \in dirs' /\ Heads(frow'[j]) \subseteq RowsOf(Here)'
      <4>1. j \in Folder \ gone /\ frow'[j] = frow[j]
        BY <2>1, <3>1, <3>7 DEF Standing
      <4>. QED BY <2>1, <3>2, <3>4, <3>5, <3>7, <4>1
    <3>8. at' = drow' /\ \A d \in Doc : at'[d] \in RowsOf(Here)' \cup {Top, None}
      BY <2>1, <3>2, <3>4
    <3>. QED BY <3>6, <3>7, <3>8 DEF Mirror, FilesRecorded, Here
  <2>4. Quiet => NothingFound'
    BY <2>1 DEF NothingFound
  <2>. QED BY <2>1, <2>2, <2>3, <2>4 DEF Writes
<1>. QED BY <1>1, <1>2, <1>3, <1>4

(* The files: placed where their folder's row is, or removed.               *)
LEMMA DocsQuiet ==
  ASSUME IdleInv, NEW d \in Doc, PlaceDoc(d) \/ RemoveDoc(d)
  PROVE  StillQuiet /\ ~Writes
<1>. USE DEF StillQuiet, IdleInv
<1>1. /\ FoldersDone /\ Applying
      /\ todo' \subseteq todo /\ gone' \subseteq gone /\ (phase = "verify" => UNCHANGED gone)
      /\ UNCHANGED <<node, home, frow, phase, mkdirs, spent, crossed>>
  BY DEF PlaceDoc, RemoveDoc, Placed, Unchanging, server, Applying
<1>2. Quiet' => Quiet
  BY <1>1, QuietBefore
<1>3. Quiet => NothingFound'
  BY <1>1 DEF NothingFound, Applying
<1>4. /\ frow \in [Folder -> Paths \cup {None}] /\ None \notin Dirs
      /\ at \in [Doc -> Dirs \cup {None}] /\ drow \in [Doc -> Dirs \cup {None}]
  BY NoneIsNoPath DEF IInv, Typed, LocalOK
<1>5. ASSUME Quiet PROVE Mirror(Here, Standing)'
  <2>1. /\ dirs \subseteq RowsOf(Here)
        /\ \A j \in Folder : frow[j] # None =>
             frow[j] \in dirs /\ Heads(frow[j]) \subseteq RowsOf(Here)
        /\ at = drow /\ \A x \in Doc : at[x] \in RowsOf(Here) \cup {Top, None}
    BY <1>1, <1>5 DEF Mirror, FilesRecorded, Here, Standing, FoldersDone
  <2>2. RowsOf(Here)' = RowsOf(Here) /\ Standing' \subseteq Folder
    BY <1>1 DEF RowsOf, Here, Standing
  <2>3. dirs \subseteq dirs' /\ dirs' \subseteq RowsOf(Here)
    <3>1. CASE PlaceDoc(d)
      <4>. DEFINE p == PathOf(snap[d].parent)
      <4>1. /\ snap[d].parent \in Folder \cup {Root} /\ Known(snap[d].parent)
            /\ dirs' = CreateDirs(dirs, p)
        BY <3>1 DEF PlaceDoc, IInv, Typed, PassOK, SnapOK
      <4>2. CASE snap[d].parent = Root
        BY <2>1, <4>1, <4>2 DEF PathOf, CreateDirs, Top
      <4>3. CASE snap[d].parent \in Folder
        <5>1. p = frow[snap[d].parent] /\ p # None
          BY <4>1, <4>3, FolderAssumption DEF PathOf, Known
        <5>2. Heads(p) \subseteq RowsOf(Here)
          BY <2>1, <4>3, <5>1
        <5>. QED BY <2>1, <4>1, <5>2 DEF CreateDirs, Heads
      <4>. QED BY <4>1, <4>2, <4>3
    <3>2. CASE RemoveDoc(d)
      BY <2>1, <3>2 DEF RemoveDoc
    <3>. QED BY <3>1, <3>2
  <2>4. at' = drow' /\ \A x \in Doc : at'[x] \in RowsOf(Here) \cup {Top, None}
    <3>1. CASE PlaceDoc(d)
      <4>. DEFINE p == PathOf(snap[d].parent)
      <4>1. drow' = [drow EXCEPT ![d] = p] /\ at' = [at EXCEPT ![d] = p]
        BY <2>1, <3>1 DEF PlaceDoc
      <4>2. p \in RowsOf(Here) \cup {Top}
        BY <3>1, FolderAssumption DEF PlaceDoc, Known, PathOf, RowsOf, Here
      <4>. QED BY <1>4, <2>1, <4>1, <4>2
    <3>2. CASE RemoveDoc(d)
      <4>1. drow' = [drow EXCEPT ![d] = None] /\ at' = [at EXCEPT ![d] = None]
        BY <1>4, <2>1, <3>2 DEF RemoveDoc
      <4>. QED BY <1>4, <2>1, <4>1
    <3>. QED BY <3>1, <3>2
  <2>5. \A j \in Standing' : frow'[j] # None =>
          frow'[j] \in dirs' /\ Heads(frow'[j]) \subseteq RowsOf(Here)
    BY <1>1, <2>1, <2>2, <2>3
  <2>. QED BY <2>2, <2>3, <2>4, <2>5 DEF Mirror, FilesRecorded, Here
<1>. QED BY <1>1, <1>2, <1>3, <1>5 DEF Writes

(* A parent that no row had is recorded where its own parent is.            *)
LEMMA ParentsQuiet ==
  ASSUME IdleInv, NEW x \in Item, ResolveParent(x) \/ SkipItem(x)
  PROVE  StillQuiet /\ ~Writes
<1>. USE DEF StillQuiet, IdleInv
<1>1. CASE ResolveParent(x)
  <2>1. /\ Applying /\ Orphan(x) /\ snap[x].parent \in Live /\ Crosses(RowTaken)
        /\ UNCHANGED <<node, home, phase, todo, gone, mkdirs, spent>>
    BY <1>1 DEF ResolveParent, Orphan, Unchanging, server
  <2>2. Quiet' => Quiet /\ ~RowTaken
    BY <2>1, QuietBefore DEF Crosses, Quiet
  <2>3. ASSUME Quiet, ~RowTaken PROVE Mirror(Here, Folder)'
    <3>1. Standing = Folder
      BY <2>1 DEF Standing, Orphan, IsNext, FoldersDone
    <3>2. PICK f \in Asked(snap[x].parent) :
            /\ ~Known(f) /\ Known(node[f].parent)
            /\ Becomes(Recorded(Here, f, Append(PathOf(node[f].parent), node[f].name)))
      BY <1>1 DEF ResolveParent
    <3>3. f \in Folder /\ Ever(f)
      BY <2>1, <3>2, AskedEver DEF Asked, IInv, Typed
    <3>4. node[f].parent \in Folder \cup {Root} /\ node[f].name \in Names
      BY <3>3 DEF IInv, Typed, ServerOK, Nodes
    <3>5. Here.frow[f] = None
      BY <3>2, <3>3 DEF Known, Here
    <3>6. \A p : ~Refused(Here, f, p) /\ ~Fails(Here, f, p)
      BY <3>5 DEF Refused, Fails, MustMove
    <3>. QED BY <2>3, <3>1, <3>2, <3>3, <3>4, <3>6, RecordingMirrors
  <2>4. Mirror(Here, Folder)' => Mirror(Here, Standing)'
    BY DEF Mirror, Standing
  <2>5. Quiet => NothingFound'
    BY <2>1 DEF NothingFound
  <2>. QED BY <2>1, <2>2, <2>3, <2>4, <2>5 DEF Writes
<1>2. CASE SkipItem(x)
  <2>1. /\ Applying /\ todo' \subseteq todo
        /\ UNCHANGED spent \/ Spend("failures")
        /\ UNCHANGED <<node, home, local, phase, gone, mkdirs, crossed>>
    BY <1>2 DEF SkipItem, Orphan, Placed, server
  <2>2. (Quiet' => Quiet) /\ Standing' \subseteq Standing
    BY <2>1, QuietBefore, FewerStand
  <2>3. Quiet => Mirror(Here, Standing)'
    BY <2>1, <2>2, MirrorStays
  <2>. QED BY <2>1, <2>2, <2>3 DEF NothingFound, Applying, Writes
<1>. QED BY <1>1, <1>2

(* No directory is without a row, and no file.                              *)
LEMMA DirsQuiet ==
  ASSUME IdleInv, NEW p \in mkdirs,
         \/ DirFails(p)
         \/ \E i \in Folder : \/ CreateFolder(i, p)
                              \/ \E e \in Folder : AdoptFolder(i, e, p) \/ CreateBeside(i, e, p)
                                                     \/ AdoptFails(i, e, p)
  PROVE  StillQuiet /\ ~Quiet
<1>1. phase = "push" /\ (crossed => crossed') /\ (UNCHANGED spent \/ Spend("failures"))
  <2>1. CASE DirFails(p)
    BY <2>1 DEF DirFails, NextDir
  <2>2. ASSUME NEW i \in Folder, CreateFolder(i, p)
        PROVE  phase = "push" /\ (crossed => crossed') /\ UNCHANGED spent
    BY <2>2 DEF CreateFolder, NextDir, Crosses
  <2>3. ASSUME NEW i \in Folder, NEW e \in Folder, AdoptFolder(i, e, p)
        PROVE  phase = "push" /\ (crossed => crossed') /\ UNCHANGED spent
    BY <2>3 DEF AdoptFolder, NextDir, Crosses
  <2>4. ASSUME NEW i \in Folder, NEW e \in Folder, CreateBeside(i, e, p)
        PROVE  phase = "push" /\ (crossed => crossed') /\ UNCHANGED spent
    BY <2>4 DEF CreateBeside, NextDir, Crosses
  <2>5. ASSUME NEW i \in Folder, NEW e \in Folder, AdoptFails(i, e, p)
        PROVE  phase = "push" /\ (crossed => crossed') /\ UNCHANGED spent
    BY <2>5 DEF AdoptFails, NextDir
  <2>. QED BY <2>1, <2>2, <2>3, <2>4, <2>5
<1>2. Quiet' => Quiet
  BY <1>1, QuietBefore
<1>. QED BY <1>1, <1>2 DEF IdleInv, NothingFound, StillQuiet

(* Nor is a file to be uploaded, given up or deleted on the server.         *)
LEMMA FilesQuiet ==
  ASSUME IdleInv, NEW d \in Doc, PushDoc(d) \/ PushFails(d) \/ DeleteMissing(d)
  PROVE  StillQuiet /\ ~Quiet
<1>1. /\ phase = "files" /\ todo \cup gone # {} /\ UNCHANGED <<spent, crossed>>
  BY DEF PushDoc, PushFails, DeleteMissing
<1>2. Quiet' => Quiet
  BY <1>1, QuietBefore
<1>. QED BY <1>1, <1>2 DEF IdleInv, NothingFound, StillQuiet

(* The scans find nothing, and the pass ends.                               *)
LEMMA PhasesQuiet ==
  ASSUME IdleInv, EndVerify \/ Scan \/ ScanFiles \/ EndPass
  PROVE  StillQuiet /\ ~Writes
<1>. USE DEF StillQuiet, IdleInv
<1>1. UNCHANGED <<node, home, local, spent, crossed>>
  BY DEF EndVerify, Scan, ScanFiles, EndPass, server
<1>2. Quiet' => Quiet
  BY <1>1, QuietBefore
<1>3. ASSUME Quiet PROVE Mirror(Here, Standing)' /\ NothingFound'
  <2>1. gone = {} /\ Mirror(Here, Standing)
    BY <1>3 DEF EndVerify, Scan, ScanFiles, EndPass, NothingFound
  <2>2. Standing' \subseteq Standing
    BY <2>1 DEF Standing
  <2>3. NothingFound'
    <3>1. dirs \subseteq Tracked /\ at = drow
      BY <2>1 DEF Mirror, FilesRecorded, RowsOf, Here, Tracked
    <3>2. CASE EndVerify \/ EndPass
      BY <3>2 DEF EndVerify, EndPass, Rest, NothingFound
    <3>3. CASE Scan
      BY <1>3, <3>1, <3>3 DEF Scan, NothingFound
    <3>4. CASE ScanFiles
      BY <1>3, <3>1, <3>4 DEF ScanFiles, Misplaced, NothingFound
    <3>. QED BY <3>2, <3>3, <3>4
  <2>. QED BY <1>1, <2>1, <2>2, <2>3, MirrorStays
<1>. QED BY <1>1, <1>2, <1>3 DEF Writes

(* So with every step, and a passive user's client writes nothing in it.    *)
LEMMA StepQuiet ==
  ASSUME IdleInv, Next
  PROVE  /\ StillQuiet
         /\ Writes => OtherClients \/ OtherClientsFiles \/ User \/ Accident \/ ~Quiet
<1>1. CASE OtherClients \/ OtherClientsFiles \/ User \/ Accident
  BY <1>1, OthersQuiet, NotQuiet
<1>2. CASE StartVerify \/ StartFull
  BY <1>2, StartQuiet
<1>3. CASE Work
  <2>1. CASE \E i \in Folder :
               PlaceFolder(i) \/ RefuseFolder(i) \/ FailFolder(i) \/ RemoveFolder(i)
    BY <2>1, FoldersQuiet
  <2>2. CASE \E d \in Doc : PlaceDoc(d) \/ RemoveDoc(d)
    BY <2>2, DocsQuiet
  <2>3. CASE \E d \in Doc : PushDoc(d) \/ PushFails(d) \/ DeleteMissing(d)
    BY <2>3, FilesQuiet
  <2>4. CASE \E x \in Item : ResolveParent(x) \/ SkipItem(x)
    BY <2>4, ParentsQuiet
  <2>5. CASE EndVerify \/ Scan \/ ScanFiles \/ EndPass
    BY <2>5, PhasesQuiet
  <2>6. CASE \E p \in mkdirs :
               \/ DirFails(p)
               \/ \E i \in Folder : \/ CreateFolder(i, p)
                                    \/ \E e \in Folder :
                                         AdoptFolder(i, e, p) \/ CreateBeside(i, e, p)
                                           \/ AdoptFails(i, e, p)
    BY <2>6, DirsQuiet
  <2>. QED BY <1>3, <2>1, <2>2, <2>3, <2>4, <2>5, <2>6 DEF Work
<1>. QED BY <1>1, <1>2, <1>3 DEF Next

(* Neither users nor ends of the process write on the server.               *)
LEMMA NoWrite ==
  ASSUME User \/ Accident
  PROVE  ~Writes
BY DEF User, UserMkdir, UserPut, UserRemove, Accident, Stop, DieMoving, server, Writes

(* At the start one folder at most is in step, and its directory is there.  *)
LEMMA StartsQuiet == Init => IdleInv
<1>. SUFFICES ASSUME Init PROVE IdleInv
  OBVIOUS
<1>1. IInv /\ crossed = FALSE
  BY Start DEF Init
<1>2. /\ phase = "idle" /\ todo = {} /\ gone = {} /\ mkdirs = {}
      /\ at = [d \in Doc |-> None] /\ drow = [d \in Doc |-> None]
  BY DEF Init
<1>3. ASSUME Quiet PROVE Mirror(Here, Folder)
  <2>1. PICK s \in Scenarios, name \in Given, other \in Given :
          LET old == {i \in Folder : s.instep /\ \A j \in Folder : i <= j}
              made == IF s.made THEN {<<other>>, <<other, name>>} ELSE {}
          IN /\ name # other
             /\ spent = [scenario |-> s, remote |-> 0, user |-> Cardinality(made),
                         removals |-> 0, failures |-> 0, stops |-> 0]
             /\ node = [i \in Folder |->
                  IF i \in old THEN [state |-> "live", parent |-> Root, name |-> name]
                  ELSE Nothing]
             /\ frow = [i \in Folder |-> IF i \in old THEN <<name>> ELSE None]
             /\ dirs = {<<name>> : i \in old} \cup made
    BY DEF Init
  <2>. DEFINE old == {i \in Folder : s.instep /\ \A j \in Folder : i <= j}
              made == IF s.made THEN {<<other>>, <<other, name>>} ELSE {}
  <2>2. made = {}
    <3>. SUFFICES ASSUME s.made PROVE FALSE
      OBVIOUS
    <3>1. spent.user = Cardinality({<<other>>, <<other, name>>})
      BY <2>1
    <3>2. IsFiniteSet({<<other>>, <<other, name>>})
      <4>1. IsFiniteSet({}) /\ IsFiniteSet({<<other>>})
        BY FS_EmptySet, FS_Singleton
      <4>2. IsFiniteSet({<<other>>} \cup {<<other, name>>})
        BY <4>1, FS_AddElement
      <4>3. {<<other>>} \cup {<<other, name>>} = {<<other>>, <<other, name>>}
        OBVIOUS
      <4>. QED BY <4>2, <4>3
    <3>3. Cardinality({<<other>>, <<other, name>>}) # 0
      BY <3>2, FS_EmptySet
    <3>4. spent.user = 0
      BY <1>1, <1>3 DEF Quiet, IInv, Typed, CountOK, Spent
    <3>. QED BY <3>1, <3>3, <3>4
  <2>3. /\ dirs = {<<name>> : i \in old} /\ name \in Names
        /\ frow = [i \in Folder |-> IF i \in old THEN <<name>> ELSE None]
    BY <2>1, <2>2, GivenNames
  <2>. HIDE DEF made
  <2>4. <<name>> # None /\ Heads(<<name>>) = {<<name>>}
    <3>1. <<name>> \in Seq(Names) /\ <<name>> \in Dirs /\ Len(<<name>>) = 1 /\ 1 .. 1 = {1}
      BY <2>3 DEF Dirs
    <3>2. SubSeq(<<name>>, 1, 1) = <<name>>
      BY <3>1, SubSeqFull
    <3>. QED BY <3>1, <3>2, NoneIsNoPath DEF Heads
  <2>5. \A i \in Folder : frow[i] # None => i \in old /\ frow[i] = <<name>>
    BY <2>3
  <2>6. \A i \in old : frow[i] = <<name>>
    BY <2>3
  <2>. HIDE DEF old
  <2>7. old \subseteq Folder
    BY DEF old
  <2>8. dirs \subseteq RowsOf(Here)
    BY <2>3, <2>4, <2>6, <2>7 DEF RowsOf, Here
  <2>9. \A i \in Folder : frow[i] # None =>
          frow[i] \in dirs /\ Heads(frow[i]) \subseteq RowsOf(Here)
    BY <2>3, <2>4, <2>5, <2>8
  <2>10. FilesRecorded(Here)
    BY <1>2 DEF FilesRecorded, Here
  <2>. QED BY <2>8, <2>9, <2>10 DEF Mirror, Here
<1>4. Mirror(Here, Folder) => Mirror(Here, Standing)
  BY DEF Mirror, Standing
<1>. QED BY <1>1, <1>2, <1>3, <1>4 DEF IdleInv, NothingFound

(* While its user does nothing, a client that has not died and whose        *)
(* folders never came in each other's way writes nothing on the server, of  *)
(* folders or of files, whatever the other clients do meanwhile.            *)
THEOREM QuietClientWritesNothing == Spec => PassiveClientWritesNothing
<1>1. IdleInv /\ [Next]_vars => IdleInv'
  <2>. SUFFICES ASSUME IdleInv, [Next]_vars PROVE IdleInv'
    OBVIOUS
  <2>1. IInv' /\ crossed' \in BOOLEAN
    BY StepKeeps, Crossing DEF IdleInv
  <2>2. StillQuiet
    <3>1. CASE Next
      BY <3>1, StepQuiet
    <3>2. CASE UNCHANGED vars
      <4>1. /\ UNCHANGED <<local, todo, gone, mkdirs, phase, spent, crossed>>
        BY <3>2 DEF vars, pass
      <4>2. Standing' \subseteq Standing
        BY <4>1, FewerStand
      <4>. QED BY <4>1, <4>2, QuietBefore, MirrorStays DEF StillQuiet, IdleInv, NothingFound
    <3>. QED BY <3>1, <3>2
  <2>. QED BY <2>1, <2>2 DEF StillQuiet, IdleInv
<1>2. IdleInv /\ [Next]_vars
        => [<<node, home>>' # <<node, home>> =>
              \/ OtherClients \/ OtherClientsFiles
              \/ spent.user + spent.removals + spent.stops > 0
              \/ crossed]_vars
  <2>. SUFFICES ASSUME IdleInv, Next, Writes
                PROVE  \/ OtherClients \/ OtherClientsFiles
                       \/ spent.user + spent.removals + spent.stops > 0
                       \/ crossed
    BY DEF Writes
  <2>1. OtherClients \/ OtherClientsFiles \/ ~Quiet
    BY StepQuiet, NoWrite
  <2>2. spent.user \in Nat /\ spent.removals \in Nat /\ spent.stops \in Nat
    BY DEF IdleInv, IInv, Typed, CountOK, Spent
  <2>. QED BY <2>1, <2>2 DEF Quiet
<1>. QED BY <1>1, <1>2, StartsQuiet, PTL DEF Spec, PassiveClientWritesNothing
=============================================================================
