------------------------------ MODULE Settings ------------------------------
(***************************************************************************)
(* The config file ~/.nuage.yml and those who share it without a lock: the  *)
(* commands that rewrite it (login, logout, spaces rename, spaces rm), each *)
(* a load and a later save of the whole file, the user's editor, and the    *)
(* daemon, which reads it once and turns each name it maps into an engine   *)
(* for a space of the server and a directory.  A name is what the file has, *)
(* an id what the engine keeps: this module is about the two agreeing.      *)
(*                                                                          *)
(* Names that differ in case are one name; a name written as a number is    *)
(* left out.  Two directories one of which contains the other behave like   *)
(* one directory.                                                           *)
(***************************************************************************)
EXTENDS Login

CONSTANTS
  Space,      \* ids of the spaces the server may hold
  Name, Personal,
  Dir,
  Absent,     \* no config file
  Empty       \* one that has been truncated, and not yet written

ASSUME NameAssumption == Personal \in Name /\ None \notin Name
ASSUME DirAssumption == None \notin Dir
ASSUME SpaceAssumption == Space \subseteq Nat \ {0}

Own == 0                        \* the account's own tree: no space at all
Vault == "vault"                \* what key_command prints
ASSUME VaultAssumption == Vault \notin Shell \cup {None}
Map == [Name -> Dir \cup {None}]
Unmapped == [n \in Name |-> None]
Config == [token : Shell \cup {None, Vault}, key : BOOLEAN, map : Map,
           ignore : {"none", "user", "default"}]
ASSUME FileAssumption == Absent \notin Config /\ Empty \notin Config
Default == [token |-> None, key |-> FALSE, map |-> Unmapped, ignore |-> "none"]

VARIABLES
  file,     \* the config file
  work,     \* per shell: its command, where it stands and the config it loaded
  space,    \* per id: the name the server gives the space, None if it has none
  daemon,   \* the map the daemon loaded and the engines it runs
  meant,    \* history: the directories the user gave to names
  bore      \* history: the names each space has had

own == <<file, work, space, daemon, meant, bore>>
vars == <<flow, budget, own>>

Idle == [step |-> "idle", cfg |-> Default, id |-> Own, name |-> None, new |-> None,
         fresh |-> FALSE]
Stopped == [step |-> "stopped", map |-> Unmapped, engines |-> {}]

(* Nothing yet, or what a user who signed in before has written.            *)
Init ==
  /\ LoginInit
  /\ file = IF budget.installed THEN [Default EXCEPT !.ignore = "user", !.key = TRUE]
            ELSE Absent
  /\ work = [p \in Shell |-> Idle]
  /\ space = [i \in Space |-> None]
  /\ daemon = Stopped
  /\ meant = {}
  /\ bore = [i \in Space \cup {Own} |-> IF i = Own THEN {Personal} ELSE {}]

(* The user gives a name a directory, with a space in mind if there is one. *)
Wish(n, dir) == [name |-> n, dir |-> dir, for |-> {i \in Space : space[i] = n}]

-----------------------------------------------------------------------------
(* Config::load_or_default: an empty file parses as one without any field.  *)
Read == IF file \in {Absent, Empty} THEN Default ELSE file

(* Config::load, for those who need a token and never save what they got.   *)
Loaded == IF Read.key THEN [Read EXCEPT !.token = Vault] ELSE Read
SignedIn == Loaded.token # None

Quiet == \A p \in Shell : work[p].step \in {"idle", "end"}

(* In calm scenarios a command runs alone.                                  *)
MayBegin(p) == work[p].step = "idle" /\ (budget.calm => Quiet)

(* What a command does next, and save() as a step of its own.               *)
Ends(p) == work' = [work EXCEPT ![p] = [Idle EXCEPT !.step = "end"]]
Does(p, s) == work' = [work EXCEPT ![p].step = s]
Saves(p, cfg) == work' = [work EXCEPT ![p].step = "truncate", ![p].cfg = cfg]

(* write_private: the file is truncated, then written.                      *)
Truncate(p) ==
  /\ work[p].step = "truncate"
  /\ file' = Empty
  /\ Does(p, "write")
  /\ UNCHANGED <<flow, budget, space, daemon, meant, bore>>
Write(p) ==
  /\ work[p].step = "write"
  /\ file' = work[p].cfg
  /\ Ends(p)
  /\ UNCHANGED <<flow, budget, space, daemon, meant, bore>>

Crash(p) ==
  /\ ~budget.calm /\ ~ work[p].step \in {"idle", "login", "end"}
  /\ Spend("faults")
  /\ Ends(p)
  /\ UNCHANGED <<flow, file, space, daemon, meant, bore>>

-----------------------------------------------------------------------------
(* nuage login: whether this is a fresh install is seen before the user     *)
(* signs in, the config loaded once there is a token.                       *)

StartLogin(p, force, auth, terminal) ==
  /\ MayBegin(p)
  /\ Begin(p, force, auth, terminal)
  /\ work' = [work EXCEPT ![p].step = "login", ![p].fresh = (file = Absent)]
  /\ UNCHANGED <<file, space, daemon, meant, bore>>

LoginLoads(p, dir) ==
  LET signed == [Read EXCEPT !.token = login[p].token]
      seeded == [signed EXCEPT !.map[Personal] = dir, !.ignore = "default"]
  IN /\ work[p].step = "login" /\ login[p].step = "got"
     /\ work' = [work EXCEPT ![p].step = "test",
                   ![p].cfg = IF work[p].fresh THEN seeded ELSE signed]
     /\ meant' = IF work[p].fresh THEN meant \cup {Wish(Personal, dir)} ELSE meant
     /\ UNCHANGED <<flow, budget, file, space, daemon, bore>>

LoginFails(p) ==
  /\ \/ work[p].step = "login" /\ login[p].step = "failed"
     \/ work[p].step = "test"
  /\ Ends(p)
  /\ UNCHANGED <<flow, budget, file, space, daemon, meant, bore>>

TestConnection(p) ==
  /\ work[p].step = "test"
  /\ Saves(p, work[p].cfg)
  /\ UNCHANGED <<flow, budget, file, space, daemon, meant, bore>>

Logout(p) ==
  /\ MayBegin(p)
  /\ IF Read.token = None THEN Ends(p) ELSE Saves(p, [Read EXCEPT !.token = None])
  /\ UNCHANGED <<flow, budget, file, space, daemon, meant, bore>>

-----------------------------------------------------------------------------
(* nuage spaces rename and spaces rm: the space is resolved by name or by   *)
(* id, the server asked, and the map edited from a second load.             *)

Live == {i \in Space : space[i] # None}
Taken(n) == \E i \in Live : space[i] = n

(* Assumed of the server and its users: a name never belongs to two spaces  *)
(* in turn, and "personal" to none.                                         *)
MayBear(i, n) == \A j \in Space \cup {Own} : n \in bore[j] => j = i

SpaceIs(i, n) ==
  /\ space' = [space EXCEPT ![i] = n]
  /\ bore' = [bore EXCEPT ![i] = IF n = None THEN @ ELSE @ \cup {n}]

ResolveNameOnly(i, byName) == IF byName THEN space[i] ELSE None
Resolve(i, byName) == space[i]
Resolves(p, i, byName, new) ==
  /\ MayBegin(p) /\ SignedIn
  /\ i \in Live
  /\ work' = [work EXCEPT ![p].step = "update", ![p].id = i,
                ![p].name = Resolve(i, byName), ![p].new = new]
  /\ UNCHANGED <<flow, budget, file, space, daemon, meant, bore>>

StartRename(p, i, byName, new) == new # None /\ Resolves(p, i, byName, new)
StartRm(p, i, byName) ==
  ~(byName /\ space[i] = Personal) /\ Resolves(p, i, byName, None)

Update(p, outcome) ==
  LET i == work[p].id
      new == work[p].new
      served == i \in Live /\ (new # None => MayBear(i, new))
  IN /\ work[p].step = "update"
     /\ \/ outcome = "done" /\ served /\ SpaceIs(i, new) /\ Does(p, "remap")
           /\ UNCHANGED budget
        \/ outcome = "refused" /\ ~served /\ Ends(p)
           /\ UNCHANGED <<space, bore, budget>>
        \/ outcome = "lost" /\ served /\ SpaceIs(i, new) /\ Ends(p)
           /\ ~budget.calm /\ Spend("faults")
     /\ UNCHANGED <<flow, file, daemon, meant>>

(* rename_mapping and forget_mapping.                                       *)
Moved(map, old, new) ==
  [n \in Name |-> IF n = new THEN map[old] ELSE IF n = old THEN None ELSE map[n]]
RemapLoaded(p) ==
  /\ work[p].step = "remap"
  /\ IF Loaded.map[work[p].name] = None THEN Ends(p)
     ELSE Saves(p, [Loaded EXCEPT !.map = Moved(@, work[p].name, work[p].new)])
  /\ UNCHANGED <<flow, budget, file, space, daemon, meant, bore>>
Remap(p) ==
  /\ work[p].step = "remap"
  /\ IF work[p].name = None \/ Read.map[work[p].name] = None THEN Ends(p)
     ELSE Saves(p, [Read EXCEPT !.map = Moved(@, work[p].name, work[p].new)])
  /\ UNCHANGED <<flow, budget, file, space, daemon, meant, bore>>

-----------------------------------------------------------------------------
(* Everybody else: the user's editor, and the clients of other people.      *)

(* The user gives an unmapped name a directory, in a file that may be new.  *)
HandMap(n, dir) ==
  /\ Spend("hand")
  /\ budget.calm => Quiet
  /\ file # Empty /\ Read.map[n] = None
  /\ LET kept == IF file = Absent THEN {[Default EXCEPT !.ignore = "user"]} ELSE {file}
     IN \E c \in kept : file' = [c EXCEPT !.map[n] = dir]
  /\ meant' = meant \cup {Wish(n, dir)}
  /\ UNCHANGED <<flow, work, space, daemon, bore>>

(* nuage spaces create, and what somebody else does to the same spaces.     *)
CreateSpace(i, n) ==
  /\ Spend("spaces")
  /\ bore[i] = {} /\ \A j \in Space : j < i => bore[j] # {}
  /\ MayBear(i, n)
  /\ SpaceIs(i, n)
  /\ UNCHANGED <<flow, file, work, daemon, meant>>

RenamedElsewhere(i, n) ==
  /\ ~budget.calm /\ Spend("faults")
  /\ i \in Live /\ (n = None \/ MayBear(i, n))
  /\ SpaceIs(i, n)
  /\ UNCHANGED <<flow, file, work, daemon, meant>>

-----------------------------------------------------------------------------
(* run_daemon: the config and its directories first, the server's spaces    *)
(* second, and then one engine per name that one of them answers to.        *)

Mapped(map) == {n \in Name : map[n] # None}
Apart(map) == \A m, n \in Mapped(map) : m # n => map[m] # map[n]

DaemonLoads ==
  /\ daemon = Stopped
  /\ Spend("starts")
  /\ SignedIn
  /\ Mapped(Loaded.map) # {} /\ Apart(Loaded.map)
  /\ daemon' = [daemon EXCEPT !.step = "resolving", !.map = Loaded.map]
  /\ UNCHANGED <<flow, file, work, space, meant, bore>>

SpaceForFlattened(n) == IF Taken(n) THEN {i \in Live : space[i] = n} ELSE {None}
SpaceForOrOwn(n) ==
  IF n = Personal \/ ~Taken(n) THEN {Own} ELSE {i \in Live : space[i] = n}
SpaceFor(n) == IF n = Personal THEN {Own} ELSE {i \in Live : space[i] = n}
DaemonResolves ==
  /\ daemon.step = "resolving"
  /\ LET known == UNION {SpaceFor(n) \X {daemon.map[n]} : n \in Mapped(daemon.map)}
     IN daemon' = IF known = {} THEN Stopped
                  ELSE [daemon EXCEPT !.step = "running", !.engines = known]
  /\ UNCHANGED <<flow, budget, file, work, space, meant, bore>>

DaemonStops ==
  /\ daemon.step = "running"
  /\ daemon' = Stopped
  /\ UNCHANGED <<flow, budget, file, work, space, meant, bore>>

-----------------------------------------------------------------------------
Commands == \E p \in Shell :
  \/ \E force, terminal \in BOOLEAN, auth \in Auth : StartLogin(p, force, auth, terminal)
  \/ \E dir \in Dir : LoginLoads(p, dir)
  \/ LoginFails(p) \/ TestConnection(p) \/ Logout(p)
  \/ \E i \in Space, byName \in BOOLEAN :
       StartRm(p, i, byName) \/ \E n \in Name : StartRename(p, i, byName, n)
  \/ \E outcome \in {"done", "refused", "lost"} : Update(p, outcome)
  \/ Remap(p) \/ Truncate(p) \/ Write(p) \/ Crash(p)

Others ==
  \/ \E n \in Name, dir \in Dir : HandMap(n, dir)
  \/ \E i \in Space, n \in Name : CreateSpace(i, n)
  \/ \E i \in Space, n \in Name \cup {None} : RenamedElsewhere(i, n)

Next ==
  \/ LoginStep /\ UNCHANGED own
  \/ Commands \/ Others
  \/ DaemonLoads \/ DaemonResolves \/ DaemonStops

Spec == Init /\ [][Next]_vars

(* The listener and its timer are steps of the program; the user, the       *)
(* browser and a peer that never hangs up owe nothing.                      *)
LiveSpec == Spec /\ \A l \in Shell : WF_vars(Proceeds(l) /\ UNCHANGED own)

-----------------------------------------------------------------------------
(* Properties.                                                              *)

(* Every variable holds what the file, the commands and the daemon can.     *)
TypeOK ==
  /\ LoginTypeOK
  /\ file \in Config \cup {Absent, Empty}
  /\ work \in [Shell ->
       [step : {"idle", "login", "test", "update", "remap", "truncate", "write", "end"},
        cfg : Config, id : Space \cup {Own}, name : Name \cup {None},
        new : Name \cup {None}, fresh : BOOLEAN]]
  /\ space \in [Space -> Name \cup {None}]
  /\ daemon \in [step : {"stopped", "resolving", "running"}, map : Map,
                 engines : SUBSET ((Space \cup {Own}) \X Dir)]
  /\ meant \subseteq [name : Name, dir : Dir, for : SUBSET Space]
  /\ bore \in [Space \cup {Own} -> SUBSET Name]

(* The token a login saves was issued to the flow that login started, even  *)
(* when the redirect of another one comes to its port.                      *)
OwnToken == \A p \in Shell :
  work[p].step \in {"test", "truncate", "write"} /\ login[p].step = "got"
    => work[p].cfg.token = p

(* What key_command prints is used by commands that also rewrite the file,  *)
(* and never gets into it.                                                  *)
SecretStaysOut ==
  /\ file \notin {Absent, Empty} => file.token # Vault
  /\ \A p \in Shell : work[p].cfg.token # Vault

(* The daemon puts a space only into a directory the user gave to a name    *)
(* that space has had, and no two spaces into one.                          *)
EnginesKeepToTheirs ==
  /\ \A e \in daemon.engines : \E w \in meant : w.name \in bore[e[1]] /\ w.dir = e[2]
  /\ \A e, f \in daemon.engines : e[2] = f[2] => e = f

(* Between commands run one at a time, a space the user gave a directory is *)
(* mapped under the name the server has for it now.                         *)
MappingFollowsRename ==
  budget.calm /\ Quiet =>
    \A i \in Live :
      LET dirs == {w.dir : w \in {v \in meant : i \in v.for}}
      IN dirs # {} => Read.map[space[i]] \in dirs

(* A login that waits for the browser ends, or asks for a token, whatever   *)
(* connects to its port and never speaks.                                   *)
LoginEnds == \A l \in Shell : Waiting(l) ~> ~Waiting(l)

(* "Existing configs keep whatever the user put there" (login/entry.rs).    *)
ExistingConfigKept ==
  [][\A p \in Shell :
       /\ work[p].step = "login" /\ work'[p].step = "test"
       /\ file \notin {Absent, Empty}
       => work'[p].cfg = [file EXCEPT !.token = login[p].token]]_vars
=============================================================================
