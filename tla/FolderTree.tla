----------------------------- MODULE FolderTree -----------------------------
(***************************************************************************)
(* Keeping the directories in step with the space's folders: placing the    *)
(* fetched folders parents first, moving a directory and its tracked        *)
(* subtree, removing what was deleted, creating on the server what only     *)
(* exists here (sync/remote_folders.rs, folders.rs, relocate.rs,            *)
(* remote_delete.rs, scan.rs, state/folders.rs, state/identity.rs).         *)
(*                                                                          *)
(* Files are documents, whose content never changes and whose names never   *)
(* clash: FileSync has edits, conflicts and versions.  A file stands for    *)
(* the directory it lies in.  There is always a cursor here: ChangeFeed     *)
(* and FileSync have the first pass.                                        *)
(***************************************************************************)
EXTENDS Naturals, FiniteSets, SequencesExt

CONSTANTS
  Folder,   \* server folder ids, given in order
  Name,     \* names given by a user
  Doc,      \* files
  None,     \* no folder, no row, nowhere
  Scenarios \* bounds: see Scenario

Root == 0
ASSUME FolderAssumption == Folder \subseteq Nat \ {Root}
ASSUME ItemAssumption == Folder \cap Doc = {} /\ None \notin Folder \cup {Root} \cup Doc
ASSUME NoneAssumption == None \notin Seq(Seq(Name \cup {"(1)"}))

(* What a behaviour may hold: whether the process verifies first (the       *)
(* daemon, --verify), whether the user acts while a pass runs, whether      *)
(* there are files, whether a folder is in step already, whether the user   *)
(* has made two directories by then, how often other clients change the     *)
(* tree, how often the user makes something and removes something, how      *)
(* many requests fail and how often the process ends.                       *)
Scenario == [verify : BOOLEAN, midpass : BOOLEAN, files : BOOLEAN, instep : BOOLEAN,
             made : BOOLEAN, remote : Nat, user : Nat, removals : Nat, failures : Nat,
             stops : Nat]
ASSUME ScenariosAssumption == Scenarios \subseteq Scenario

(* A path is the sequence of its names; the sync directory is the empty     *)
(* one.  The server may have appended "(1)" to a name.                      *)
Given == {<<n>> : n \in Name}
Copy(name) == Append(name, "(1)")
Top == <<>>
Item == Folder \cup Doc

VARIABLES
  node,   \* per folder: its state, parent and name on the server
  home,   \* per document: its folder on the server, or None
  news,   \* per item: "none", or a "fresh" or "fetched" change since the cursor
  dirs,   \* the local directories
  at,     \* per document: the directory it lies in, or None
  frow,   \* per folder: the path of its folders row, or None
  drow,   \* per document: the directory of its files row, or None
  phase,  \* what the pass is doing
  fresh,  \* the process has not fetched anything yet
  todo,   \* fetched items not yet placed
  snap,   \* per item: its parent and name when it was fetched
  gone,   \* deleted items not yet handled
  mkdirs, \* scanned directories without a row
  held,   \* report.errors > 0
  spent,  \* the scenario, and how much of each of its bounds is used
  astray, \* history: another client has moved, renamed or deleted something,
          \* or a thing went to the top as its directory had no row
  crossed \* history: a folder lost its row or its directory to another's
          \* move, adoption or deletion, or would have had to move into itself

server == <<node, home, news>>
local == <<dirs, at, frow, drow>>
pass == <<phase, fresh, todo, snap, gone, mkdirs, held>>
past == <<astray, crossed>>
vars == <<server, local, pass, spent, past>>

Verify == spent.scenario.verify
MidPass == spent.scenario.midpass

Live == {i \in Folder : node[i].state = "live"}
Absent == {i \in Folder : node[i].state = "absent"}
Nothing == [state |-> "absent", parent |-> Root, name |-> None]

Init ==
  /\ \E s \in Scenarios, name, other \in Given :
       LET old == {i \in Folder : s.instep /\ \A j \in Folder : i <= j}
           made == IF s.made THEN {<<other>>, <<other, name>>} ELSE {}
       IN /\ name # other
          /\ spent = [scenario |-> s, remote |-> 0, user |-> Cardinality(made),
                      removals |-> 0, failures |-> 0, stops |-> 0]
          /\ node = [i \in Folder |->
               IF i \in old THEN [state |-> "live", parent |-> Root, name |-> name]
               ELSE Nothing]
          /\ frow = [i \in Folder |-> IF i \in old THEN <<name>> ELSE None]
          /\ dirs = {<<name>> : i \in old} \cup made
  /\ home = [d \in Doc |-> None]
  /\ news = [x \in Item |-> "none"]
  /\ at = [d \in Doc |-> None]
  /\ drow = [d \in Doc |-> None]
  /\ phase = "idle" /\ fresh = TRUE
  /\ todo = {} /\ gone = {} /\ mkdirs = {}
  /\ snap = [x \in Item |-> Nothing]
  /\ held = FALSE
  /\ astray = FALSE
  /\ crossed = FALSE

Spend(kind) ==
  /\ spent[kind] < spent.scenario[kind]
  /\ spent' = [spent EXCEPT ![kind] = @ + 1]

-----------------------------------------------------------------------------
(* The server: a tree in which siblings have different names.               *)

Children(f) == {i \in Live : node[i].parent = f}
Named(f, name) == {i \in Children(f) : node[i].name = name}
Exists(f) == f \in Live \cup {Root}

Lineage[n \in Nat, i \in Folder \cup {Root}] ==
  IF n = 0 \/ i = Root THEN {i}
  ELSE {i} \cup Lineage[n - 1, node[i].parent]
Ancestry(i) == Lineage[Cardinality(Folder), i]

Trail[n \in Nat, i \in Folder \cup {Root}] ==
  IF n = 0 \/ i = Root THEN Top
  ELSE Append(Trail[n - 1, node[i].parent], node[i].name)
ServerPath(i) == Trail[Cardinality(Folder), i]

NextId(i) == i \in Absent /\ \A j \in Absent : i <= j
Told(items) == news' = [x \in Item |-> IF x \in items THEN "fresh" ELSE news[x]]
Give(i, f, name) ==
  node' = [node EXCEPT ![i] = [state |-> "live", parent |-> f, name |-> name]]

Unclaimed(i, f, name) == Named(f, name) \subseteq {i}

RemoteCreate(i, f, name) ==
  /\ Spend("remote")
  /\ NextId(i) /\ Exists(f)
  /\ Unclaimed(i, f, name)
  /\ Give(i, f, name)
  /\ Told({i})
  /\ UNCHANGED <<home, local, pass, past>>

RemoteMove(i, f, name) ==
  /\ Spend("remote")
  /\ i \in Live /\ Exists(f)
  /\ i \notin Ancestry(f)
  /\ <<f, name>> # <<node[i].parent, node[i].name>>
  /\ Unclaimed(i, f, name)
  /\ Give(i, f, name)
  /\ Told({i})
  /\ astray' = TRUE
  /\ UNCHANGED <<home, local, pass, crossed>>

(* A folder goes with everything in it, and the feed names all of it.       *)
Contents(i) ==
  {j \in Live : i \in Ancestry(j)}
    \cup {d \in Doc : home[d] \in Live /\ i \in Ancestry(home[d])}
RemoteDelete(i) ==
  /\ Spend("remote")
  /\ i \in Live
  /\ node' = [j \in Folder |-> IF j \in Contents(i)
                               THEN [node[j] EXCEPT !.state = "deleted"] ELSE node[j]]
  /\ home' = [d \in Doc |-> IF d \in Contents(i) THEN None ELSE home[d]]
  /\ Told(Contents(i))
  /\ astray' = TRUE
  /\ UNCHANGED <<local, pass, crossed>>

RemotePut(d, f) ==
  /\ Spend("remote") /\ spent.scenario.files
  /\ Exists(f) /\ home[d] # f
  /\ home[d] = None => at[d] = None /\ drow[d] = None /\ news[d] = "none"
  /\ home' = [home EXCEPT ![d] = f]
  /\ Told({d})
  /\ astray' = (astray \/ home[d] # None)
  /\ UNCHANGED <<node, local, pass, crossed>>

-----------------------------------------------------------------------------
(* The user.                                                                *)

UserTurn == phase = "idle" \/ MidPass

UserMkdir(parent, name) ==
  /\ Spend("user") /\ UserTurn
  /\ parent \in dirs \cup {Top}
  /\ Append(parent, name) \notin dirs
  /\ dirs' = dirs \cup {Append(parent, name)}
  /\ UNCHANGED <<server, at, frow, drow, pass, past>>

UserPut(d, p) ==
  /\ Spend("user") /\ spent.scenario.files /\ UserTurn
  /\ p \in dirs \cup {Top}
  /\ at[d] = None /\ drow[d] = None /\ home[d] = None /\ news[d] = "none"
  /\ at' = [at EXCEPT ![d] = p]
  /\ UNCHANGED <<server, dirs, frow, drow, pass, past>>

At(p, q) == q # None /\ IsPrefix(p, q)
UserRemove(p) ==
  /\ Spend("removals") /\ UserTurn
  /\ p \in dirs
  /\ dirs' = {q \in dirs : ~At(p, q)}
  /\ at' = [d \in Doc |-> IF At(p, at[d]) THEN None ELSE at[d]]
  /\ UNCHANGED <<server, frow, drow, pass, past>>

-----------------------------------------------------------------------------
(* Pure steps.  Here is [dirs, at, frow, drow].                             *)

Here == [dirs |-> dirs, at |-> at, frow |-> frow, drow |-> drow]
Becomes(h) == dirs' = h.dirs /\ at' = h.at /\ frow' = h.frow /\ drow' = h.drow

Under(p, q) == At(p, q) /\ p # q
Occupied(h, p) ==
  \/ \E q \in h.dirs : Under(p, q)
  \/ \E d \in Doc : At(p, h.at[d])
CreateDirsWithTop(ds, p) == ds \cup {SubSeq(p, 1, n) : n \in 0 .. Len(p)}
CreateDirs(ds, p) == ds \cup {SubSeq(p, 1, n) : n \in 1 .. Len(p)}
Shifted(q, from, to) ==
  IF At(from, q) THEN to \o SubSeq(q, Len(from) + 1, Len(q)) ELSE q

(* reparent: rows at or under the destination go, those of the subtree      *)
(* follow it.                                                               *)
Reparented(rows, from, to) ==
  [x \in DOMAIN rows |->
     IF At(to, rows[x]) /\ ~At(from, rows[x]) THEN None
     ELSE Shifted(rows[x], from, to)]

(* move_directory: whether it may, and what becomes of the disk.            *)
MoveRefused(h, from, to) == from \in h.dirs /\ to \in h.dirs /\ Occupied(h, to)
MoveFails(h, from, to) == from \in h.dirs /\ ~MoveRefused(h, from, to) /\ At(from, to)
Moved(h, from, to) ==
  IF from \notin h.dirs THEN h
  ELSE [h EXCEPT !.dirs = {Shifted(q, from, to) : q \in CreateDirs(@, Front(to))},
                 !.at = [d \in Doc |-> Shifted(@[d], from, to)]]

(* relocate_local_folder.                                                   *)
RelocatedWithoutSubtree(h, from, to) ==
  [Moved(h, from, to) EXCEPT !.frow = [i \in Folder |-> IF @[i] = from THEN to ELSE @[i]]]
Relocated(h, from, to) ==
  LET m == Moved(h, from, to)
  IN [m EXCEPT !.frow = Reparented(@, from, to), !.drow = Reparented(@, from, to)]

(* record_folder: the directory is moved to its place or made there, and    *)
(* its row takes the path from whichever folder had it.                     *)
MustMove(h, i, p) == h.frow[i] \notin {None, p}
Refused(h, i, p) == MustMove(h, i, p) /\ MoveRefused(h, h.frow[i], p)
Fails(h, i, p) == MustMove(h, i, p) /\ MoveFails(h, h.frow[i], p)
RecordedWithoutMoving(h, i, p) ==
  [h EXCEPT !.dirs = CreateDirs(@, p), !.frow[i] = p]
RecordedBesideTheOther(h, i, p) ==
  LET r == IF MustMove(h, i, p) THEN Relocated(h, h.frow[i], p) ELSE h
  IN [r EXCEPT !.dirs = CreateDirs(@, p), !.frow[i] = p]
Recorded(h, i, p) ==
  LET r == IF MustMove(h, i, p) THEN Relocated(h, h.frow[i], p) ELSE h
  IN [r EXCEPT !.dirs = CreateDirs(@, p),
               !.frow = [j \in Folder |-> IF j = i THEN p
                                          ELSE IF @[j] = p THEN None ELSE @[j]]]

-----------------------------------------------------------------------------
(* Starting and ending a pass.                                              *)

Unread == [x \in Item |-> IF news[x] = "fetched" THEN "fresh" ELSE news[x]]
Rest ==
  /\ phase' = "idle"
  /\ todo' = {} /\ gone' = {} /\ mkdirs' = {}
  /\ snap' = [x \in Item |-> Nothing]
  /\ held' = FALSE
Abort == Rest /\ news' = Unread /\ UNCHANGED <<fresh, node, home, spent, astray>>

Stop ==
  /\ Spend("stops")
  /\ Rest /\ fresh' = TRUE
  /\ news' = Unread
  /\ UNCHANGED <<node, home, local, past>>

Fetch(items, removed) ==
  /\ phase = "idle"
  /\ fresh' = FALSE
  /\ todo' = items
  /\ gone' = removed
  /\ snap' = [x \in Item |->
       IF x \notin items THEN Nothing
       ELSE IF x \in Folder THEN node[x] ELSE [Nothing EXCEPT !.parent = home[x]]]
  /\ UNCHANGED <<node, home, local, mkdirs, held, spent, past>>

Everything == Live \cup {d \in Doc : home[d] # None}

StartVerify ==
  /\ Verify /\ fresh
  /\ Fetch(Everything, {})
  /\ phase' = "verify"
  /\ UNCHANGED news

StartFull ==
  /\ LET changed == {x \in Item : news[x] # "none"}
     IN Fetch(changed \cap Everything, changed \ Everything)
  /\ phase' = "full"
  /\ news' = [x \in Item |-> IF news[x] = "fresh" THEN "fetched" ELSE news[x]]

-----------------------------------------------------------------------------
(* process_remote_folders, in the order of topo_sort_folders: a folder      *)
(* after its parent when both are in the window, breadth first.             *)

Applying == phase \in {"verify", "full"}
Batch == {i \in Folder : snap[i] # Nothing}
Rank[n \in Nat, i \in Folder \cup {Root}] ==
  IF n = 0 \/ i \notin Batch \/ snap[i].parent \notin Batch THEN 0
  ELSE 1 + Rank[n - 1, snap[i].parent]
Level(i) == Rank[Cardinality(Folder), i]
IsNext(i) ==
  /\ i \in todo \cap Folder
  /\ \A j \in todo \cap Folder : Level(i) <= Level(j)

(* ensure_folder_known, for a parent some row has.                          *)
Known(f) == f \in {Root} \cup {i \in Folder : frow[i] # None}
PathOf(f) == IF f = Root THEN Top ELSE frow[f]
Target(i) == Append(PathOf(snap[i].parent), snap[i].name)

Placed(x) == todo' = todo \ {x}
Trouble == held' = TRUE

Crosses(how) == crossed' = (crossed \/ how)
RowTaken == \E j \in Folder : frow[j] # None /\ frow'[j] = None
Unchanging == UNCHANGED <<server, phase, fresh, snap, mkdirs, spent, astray>>

PlaceFolder(i) ==
  /\ Applying /\ IsNext(i)
  /\ Known(snap[i].parent)
  /\ ~Refused(Here, i, Target(i)) /\ ~Fails(Here, i, Target(i))
  /\ Becomes(Recorded(Here, i, Target(i)))
  /\ Crosses(RowTaken)
  /\ Placed(i)
  /\ UNCHANGED <<gone, held>> /\ Unchanging

(* The destination holds something: one more error, and another pass.       *)
RefuseFolder(i) ==
  /\ Applying /\ IsNext(i)
  /\ Known(snap[i].parent)
  /\ Refused(Here, i, Target(i))
  /\ Placed(i)
  /\ Trouble
  /\ UNCHANGED <<local, gone, crossed>> /\ Unchanging

(* A directory cannot be renamed into itself, and the error ends the pass.  *)
FailFolder(i) ==
  /\ Applying /\ IsNext(i)
  /\ Known(snap[i].parent)
  /\ Fails(Here, i, Target(i))
  /\ Abort
  /\ Crosses(TRUE)
  /\ dirs' = dirs \ {Target(i)}
  /\ UNCHANGED <<at, frow, drow>>

(* The process dies inside relocate_local_folder: after the rename, or      *)
(* with only the folder rows shifted.                                       *)
DieMoving(i) ==
  /\ Spend("stops")
  /\ Applying /\ IsNext(i)
  /\ Known(snap[i].parent)
  /\ LET p == Target(i)
         m == Moved(Here, frow[i], p)
     IN /\ MustMove(Here, i, p)
        /\ ~Refused(Here, i, p) /\ ~Fails(Here, i, p)
        /\ \E h \in {m, [m EXCEPT !.frow = Reparented(@, frow[i], p)]} : Becomes(h)
  /\ Crosses(RowTaken)
  /\ Rest /\ fresh' = TRUE
  /\ news' = Unread
  /\ UNCHANGED <<node, home, astray>>

-----------------------------------------------------------------------------
(* handle_deleted_remote_folder: the directory goes with all it holds, the  *)
(* rows of the files in it, and its own.                                    *)

RemoveFolder(i) ==
  /\ phase = "full" /\ todo \cap Folder = {} /\ i \in gone \cap Folder
  /\ gone' = gone \ {i}
  /\ LET p == frow[i]
         inside(q) == p # None /\ At(p, q)
     IN /\ dirs' = {q \in dirs : ~inside(q)}
        /\ at' = [d \in Doc |-> IF inside(at[d]) THEN None ELSE at[d]]
        /\ drow' = [d \in Doc |-> IF inside(drow[d]) THEN None ELSE drow[d]]
        /\ frow' = [frow EXCEPT ![i] = None]
  /\ Crosses(\E j \in Folder \ gone : frow[i] # None /\ Under(frow[i], frow[j]))
  /\ UNCHANGED <<todo, held>> /\ Unchanging

-----------------------------------------------------------------------------
(* process_remote_files and remove_deleted_remote_files.                    *)

FoldersDone == todo \cap Folder = {} /\ gone \cap Folder = {}

(* The file follows its row's move, is found in place or is downloaded.     *)
PlaceDoc(d) ==
  /\ Applying /\ FoldersDone /\ d \in todo
  /\ Known(snap[d].parent)
  /\ LET p == PathOf(snap[d].parent)
     IN /\ drow' = [drow EXCEPT ![d] = p]
        /\ at' = [at EXCEPT ![d] =
             IF drow[d] \in {None, p} \/ @ = drow[d] THEN p ELSE @]
        /\ dirs' = CreateDirs(dirs, p)
  /\ Placed(d)
  /\ UNCHANGED <<frow, gone, held, crossed>> /\ Unchanging

(* ensure_folder_known, for a parent no row has: the ancestors no row has   *)
(* are asked of the server and recorded from the top down.                  *)
Asked(f) ==
  {g \in Folder : \A S \in SUBSET Folder :
     (f \in S /\ \A h \in S : Known(node[h].parent) \/ node[h].parent \in S) => g \in S}
Orphan(x) ==
  /\ Applying /\ x \in todo /\ ~Known(snap[x].parent)
  /\ IF x \in Folder THEN IsNext(x) ELSE FoldersDone

ResolveParent(x) ==
  /\ Orphan(x)
  /\ snap[x].parent \in Live
  /\ \E f \in Asked(snap[x].parent) :
       /\ ~Known(f) /\ Known(node[f].parent)
       /\ Becomes(Recorded(Here, f, Append(PathOf(node[f].parent), node[f].name)))
  /\ Crosses(RowTaken)
  /\ UNCHANGED <<todo, gone, held>> /\ Unchanging

(* The parent is gone from the server, or the request fails.                *)
SkipItem(x) ==
  /\ Orphan(x)
  /\ IF snap[x].parent \in Live THEN Spend("failures") ELSE UNCHANGED spent
  /\ Placed(x)
  /\ Trouble
  /\ UNCHANGED <<server, local, phase, fresh, snap, gone, mkdirs, past>>

RemoveDoc(d) ==
  /\ phase = "full" /\ FoldersDone /\ todo = {} /\ d \in gone
  /\ gone' = gone \ {d}
  /\ at' = [at EXCEPT ![d] = IF drow[d] # None /\ @ = drow[d] THEN None ELSE @]
  /\ drow' = [drow EXCEPT ![d] = None]
  /\ UNCHANGED <<dirs, frow, todo, held, crossed>> /\ Unchanging

EndVerify ==
  /\ phase = "verify" /\ todo = {}
  /\ Rest
  /\ UNCHANGED <<server, local, fresh, spent, past>>

-----------------------------------------------------------------------------
(* reconcile_local: directories first, shallowest first.                    *)

Tracked == {frow[i] : i \in Folder} \ {None}

Scan ==
  /\ phase = "full" /\ todo = {} /\ gone = {}
  /\ phase' = "push"
  /\ mkdirs' = dirs \ Tracked
  /\ UNCHANGED <<server, local, fresh, todo, snap, gone, held, spent, past>>

(* find_parent_folder_id: a directory no row has is as good as the root.    *)
FolderAtRoot(p) == Root
FolderAt(p) == IF p \in Tracked THEN CHOOSE i \in Folder : frow[i] = p ELSE Root

Strays(p) == astray' = (astray \/ p \notin Tracked \cup {Top})

(* Nothing records a scanned directory before its turn: the second look at  *)
(* its row in ensure_remote_folder finds what the first one found.          *)
NextDir(p) ==
  /\ phase = "push" /\ p \in mkdirs \ Tracked
  /\ \A q \in mkdirs : Len(p) <= Len(q)
Parent(p) == FolderAt(Front(p))

(* ensure_remote_folder.                                                    *)
Made(p) ==
  /\ mkdirs' = mkdirs \ {p}
  /\ UNCHANGED <<home, phase, fresh, todo, snap, gone>>

CreateFolder(i, p) ==
  /\ NextDir(p)
  /\ Exists(Parent(p)) /\ NextId(i)
  /\ Named(Parent(p), Last(p)) = {}
  /\ Give(i, Parent(p), Last(p))
  /\ Told({i})
  /\ Becomes(Recorded(Here, i, p))
  /\ Made(p)
  /\ Strays(Front(p))
  /\ Crosses(RowTaken)
  /\ UNCHANGED <<held, spent>>

(* adopt_existing_folder: the server had the name already and called the    *)
(* new folder something else, which is deleted again ...                    *)
AdoptFolder(i, e, p) ==
  /\ NextDir(p)
  /\ Exists(Parent(p)) /\ NextId(i)
  /\ e \in Named(Parent(p), Last(p))
  /\ ~Refused(Here, e, p) /\ ~Fails(Here, e, p)
  /\ node' = [node EXCEPT ![i] = [state |-> "deleted", parent |-> Parent(p),
                                  name |-> Copy(Last(p))]]
  /\ Told({i})
  /\ Becomes(Recorded(Here, e, p))
  /\ Made(p)
  /\ Strays(Front(p))
  /\ Crosses(RowTaken \/ frow[e] # None)
  /\ UNCHANGED <<held, spent>>

(* ... or kept, when the directory cannot be what the server has.           *)
CreateBeside(i, e, p) ==
  /\ NextDir(p)
  /\ Exists(Parent(p)) /\ NextId(i)
  /\ e \in Named(Parent(p), Last(p)) /\ Named(Parent(p), Copy(Last(p))) = {}
  /\ Refused(Here, e, p)
  /\ Give(i, Parent(p), Copy(Last(p)))
  /\ Told({i})
  /\ Becomes(Recorded(Here, i, p))
  /\ Made(p)
  /\ Strays(Front(p))
  /\ Crosses(RowTaken)
  /\ UNCHANGED <<held, spent>>

(* ... nor even moved there: the new folder stays with the server alone.    *)
AdoptFails(i, e, p) ==
  /\ NextDir(p)
  /\ Exists(Parent(p)) /\ NextId(i)
  /\ e \in Named(Parent(p), Last(p)) /\ Named(Parent(p), Copy(Last(p))) = {}
  /\ Fails(Here, e, p)
  /\ Give(i, Parent(p), Copy(Last(p)))
  /\ Told({i})
  /\ Trouble
  /\ Made(p)
  /\ Strays(Front(p))
  /\ UNCHANGED <<local, spent, crossed>>

(* No server has no more ids, and it would go on to "(2)": those are bounds. *)
Hopeless(p) ==
  \/ ~Exists(Parent(p)) \/ Absent = {}
  \/ Named(Parent(p), Last(p)) # {} /\ Named(Parent(p), Copy(Last(p))) # {}
DirFails(p) ==
  /\ NextDir(p)
  /\ IF Hopeless(p) THEN UNCHANGED spent ELSE Spend("failures")
  /\ Trouble
  /\ Made(p)
  /\ UNCHANGED <<node, news, local, past>>

(* The files, once scanned: one that no row has where it lies is uploaded   *)
(* there, or adopted where the server has it already.                       *)
Misplaced(d) == at[d] # None /\ at[d] # drow[d]

ScanFiles ==
  /\ phase = "push" /\ mkdirs = {}
  /\ phase' = "files"
  /\ todo' = {d \in Doc : Misplaced(d)}
  /\ gone' = {d \in Doc : drow[d] # None /\ at[d] # drow[d]}
  /\ UNCHANGED <<server, local, fresh, snap, mkdirs, held, spent, past>>

PushDoc(d) ==
  /\ phase = "files" /\ d \in todo /\ at[d] # None
  /\ LET f == FolderAt(at[d])
     IN /\ Exists(f)
        /\ home' = [home EXCEPT ![d] = f]
        /\ IF home[d] = f THEN UNCHANGED news ELSE Told({d})
  /\ drow' = [drow EXCEPT ![d] = at[d]]
  /\ todo' = todo \ {d} /\ gone' = gone \ {d}
  /\ Strays(at[d])
  /\ UNCHANGED <<node, dirs, at, frow, phase, fresh, snap, mkdirs, held, spent, crossed>>

(* It is gone again, or its folder is.                                      *)
PushFails(d) ==
  /\ phase = "files" /\ d \in todo
  /\ at[d] # None => ~Exists(FolderAt(at[d]))
  /\ Placed(d)
  /\ Trouble
  /\ UNCHANGED <<server, local, phase, fresh, snap, gone, mkdirs, spent, past>>

(* propagate_local_deletions: of files; a folder is never missed.           *)
DeleteMissing(d) ==
  /\ phase = "files" /\ todo = {} /\ d \in gone
  /\ home' = [home EXCEPT ![d] = None]
  /\ drow' = [drow EXCEPT ![d] = None]
  /\ Told({d})
  /\ gone' = gone \ {d}
  /\ UNCHANGED <<node, dirs, at, frow, phase, fresh, todo, snap, mkdirs, held, spent, past>>

EndPass ==
  /\ phase = "files" /\ todo = {} /\ gone = {}
  /\ Rest
  /\ news' = IF held THEN Unread
             ELSE [x \in Item |-> IF news[x] = "fetched" THEN "none" ELSE news[x]]
  /\ UNCHANGED <<node, home, local, fresh, spent, past>>

-----------------------------------------------------------------------------
OtherClients ==
  \E i \in Folder :
    \/ \E f \in Folder \cup {Root}, n \in Given :
         RemoteCreate(i, f, n) \/ RemoteMove(i, f, n)
    \/ RemoteDelete(i)
OtherClientsFiles == \E d \in Doc, f \in Folder \cup {Root} : RemotePut(d, f)

User ==
  \E p \in dirs \cup {Top} :
    \/ \E n \in Given : UserMkdir(p, n)
    \/ \E d \in Doc : UserPut(d, p)
    \/ UserRemove(p)

Accident == Stop \/ \E i \in Folder : DieMoving(i)

Work ==
  \/ \E i \in Folder : PlaceFolder(i) \/ RefuseFolder(i) \/ FailFolder(i) \/ RemoveFolder(i)
  \/ \E d \in Doc : PlaceDoc(d) \/ RemoveDoc(d) \/ PushDoc(d) \/ PushFails(d) \/ DeleteMissing(d)
  \/ \E x \in Item : ResolveParent(x) \/ SkipItem(x)
  \/ EndVerify \/ Scan \/ ScanFiles \/ EndPass
  \/ \E p \in mkdirs :
       \/ DirFails(p)
       \/ \E i \in Folder : \/ CreateFolder(i, p)
                            \/ \E e \in Folder : AdoptFolder(i, e, p) \/ CreateBeside(i, e, p)
                                 \/ AdoptFails(i, e, p)

Next == OtherClients \/ OtherClientsFiles \/ User \/ Accident
          \/ StartVerify \/ StartFull \/ Work

Spec == Init /\ [][Next]_vars
LiveSpec == Spec /\ WF_vars(StartFull) /\ WF_vars(Work)

-----------------------------------------------------------------------------
(* Properties.                                                              *)

IsName(name) ==
  /\ Len(name) > 0 /\ name[1] \in Name
  /\ \A k \in 2 .. Len(name) : name[k] = "(1)"
IsPath(p) == Len(p) > 0 /\ \A k \in 1 .. Len(p) : IsName(p[k])

(* Every variable holds what the disk, the state database and the server    *)
(* can hold.                                                                *)
TypeOK ==
  /\ \A i \in Folder : /\ node[i].state \in {"absent", "live", "deleted"}
                       /\ node[i].parent \in Folder \cup {Root}
                       /\ frow[i] = None \/ IsPath(frow[i])
  /\ \A d \in Doc : /\ home[d] \in Folder \cup {Root, None}
                    /\ \A p \in {at[d], drow[d]} : p \in {None, Top} \/ IsPath(p)
  /\ \A p \in dirs \cup mkdirs : IsPath(p)
  /\ news \in [Item -> {"none", "fresh", "fetched"}]
  /\ phase \in {"idle", "verify", "full", "push", "files"}
  /\ fresh \in BOOLEAN /\ held \in BOOLEAN
  /\ todo \subseteq Item /\ gone \subseteq Item
  /\ spent \in [scenario : Scenarios, remote : Nat, user : Nat, removals : Nat,
               failures : Nat, stops : Nat]
  /\ astray \in BOOLEAN /\ crossed \in BOOLEAN

(* No two rows claim one path, whatever moves onto what: the table has a    *)
(* UNIQUE constraint that would end every pass from then on.                *)
RowsDistinct ==
  \A i, j \in Folder : frow[i] # None /\ frow[i] = frow[j] => i = j

(* While the user does nothing, his client makes no folder on the server,   *)
(* moves and deletes nothing there, unless the process has died, as between *)
(* moving a directory and moving its rows (DieMoving), or folders came in   *)
(* each other's way: the rows of the one that yields are then dropped, and  *)
(* its files, still on the disk, look new.                                  *)
PassiveClientWritesNothing ==
  [][<<node, home>>' # <<node, home>> =>
       \/ OtherClients \/ OtherClientsFiles
       \/ spent.user + spent.removals + spent.stops > 0
       \/ crossed]_vars

(* A file of the user leaves its directory only when another client has     *)
(* moved or deleted something, or this one has uploaded something from a    *)
(* directory without a row, which then belongs at the top: while a pass     *)
(* scans the directories, or after a request failed.                        *)
UserFilesStay ==
  [][\A d \in Doc : at[d] # None /\ at'[d] # at[d] => User \/ astray']_vars

(* Once all is quiet, directories, rows, files and the server's folders     *)
(* agree for good, or every pass reports an error.  Two things are not      *)
(* healed: a directory the user removed, and folders that came in each      *)
(* other's way.                                                             *)
InPlace ==
  /\ \A i \in Live : frow[i] = ServerPath(i) /\ frow[i] \in dirs
  /\ \A i \in Folder \ Live : frow[i] = None
  /\ dirs \subseteq Tracked
  /\ \A d \in Doc : at[d] = IF home[d] = None THEN None ELSE ServerPath(home[d])
Converges == []<>held \/ <>[](InPlace \/ crossed \/ spent.removals > 0)
=============================================================================
