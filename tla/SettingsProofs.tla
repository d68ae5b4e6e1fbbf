--------------------------- MODULE SettingsProofs ---------------------------
(***************************************************************************)
(* What TLAPS proves of Login and Settings for every set of shells, spaces, *)
(* names and directories, and whatever the scenarios allow: the types, that *)
(* a login keeps its own token, that a secret stays out of the file, that   *)
(* the daemon's engines keep to the directories they were given, and that   *)
(* the map follows a rename.                                                *)
(***************************************************************************)
EXTENDS Settings, TLAPS

-----------------------------------------------------------------------------
(* The inductive invariant, in the layers the theorems need.                *)

(* A login exchanges the code of its own flow, and so gets its own token.   *)
CodeIsOwn == \A l \in Shell :
  /\ login[l].step = "exchange" => login[l].conn = l
  /\ login[l].step = "got" => login[l].token = l

(* A shell that signs in does nothing else, and saves what it got.          *)
LoginAlone == \A p \in Shell :
  /\ work[p].step \in {"idle", "update", "remap"} => login[p].step = "none"
  /\ work[p].step \in {"test", "truncate", "write"} => login[p].step \in {"none", "got"}
  /\ login[p].step = "none" => login[p] = NotBegun
OwnToSave == \A p \in Shell :
  work[p].step \in {"test", "truncate", "write"} /\ login[p].step = "got"
    => work[p].cfg.token = p

(* Every token on its way to the file came from a login.                    *)
TokensIssued ==
  /\ file \notin {Absent, Empty} => file.token \in Shell \cup {None}
  /\ \A p \in Shell : work[p].cfg.token \in Shell \cup {None}

(* A name was only ever borne by one space, which bears its present one.    *)
NamesDistinct ==
  /\ \A i, j \in Space \cup {Own} : \A n \in bore[i] \cap bore[j] : i = j
  /\ \A i \in Space : space[i] # None => space[i] \in bore[i]
  /\ Personal \in bore[Own]
Renaming == \A p \in Shell :
  /\ work[p].step \in {"update", "remap"} =>
       work[p].id \in Space /\ work[p].name \in bore[work[p].id]
  /\ work[p].step = "remap" /\ work[p].new # None =>
       work[p].new \in bore[work[p].id]

(* Wherever a map is, each of its entries goes back to a wish of the user,  *)
(* for that name or for another name of the same space.                     *)
Related(m, n) == m = n \/ \E i \in Space \cup {Own} : {m, n} \subseteq bore[i]
Backed(map) == \A n \in Name : map[n] # None =>
  \E w \in meant : w.dir = map[n] /\ Related(n, w.name)
MapsBacked ==
  /\ Backed(Read.map) /\ Backed(daemon.map) /\ Apart(daemon.map)
  /\ \A p \in Shell : Backed(work[p].cfg.map)

(* One command at a time: what each step of it knows of the file, so that   *)
(* the map follows the spaces' names between commands.                      *)
Busy(p) == work[p].step \notin {"idle", "end"}
OneAtATime == \A p, q \in Shell : Busy(p) /\ Busy(q) => p = q
Dirs(i) == {w.dir : w \in {v \in meant : i \in v.for}}
Follows(map, i, n) == Dirs(i) # {} => map[n] \in Dirs(i)
FileFollows == \A i \in Live : Follows(Read.map, i, space[i])
Knows(p) ==
  /\ work[p].step \in {"login", "test", "update"} => FileFollows
  /\ work[p].step = "update" => space[work[p].id] = work[p].name
  /\ work[p].step = "remap" =>
       /\ space[work[p].id] = work[p].new
       /\ \A i \in Live : Follows(Read.map, i,
            IF i = work[p].id THEN work[p].name ELSE space[i])
  /\ work[p].step \in {"test", "truncate", "write"} =>
       \A i \in Live : Follows(work[p].cfg.map, i, space[i])
Calm == OneAtATime /\ (Quiet => FileFollows) /\ \A p \in Shell : Knows(p)

(* A wish has in mind only spaces that exist or did.                        *)
WishesKnown == \A w \in meant : \A i \in w.for : bore[i] # {}
CalmInv == WishesKnown /\ (budget.calm => Calm)

-----------------------------------------------------------------------------
(* Spending an allowance of the scenario changes that allowance alone.      *)
LEMMA Spending ==
  ASSUME budget \in Budget,
         NEW kind \in {"logins", "strays", "lost", "faults", "spaces", "hand", "starts"},
         Spend(kind)
  PROVE  /\ budget' \in Budget
         /\ budget'.calm = budget.calm /\ budget'.installed = budget.installed
BY DEF Budget, Spend

(* A login that gives up, or goes back to listening, holds no code.         *)
LEMMA GivingUp ==
  ASSUME LoginTypeOK, CodeIsOwn, NEW l \in Shell,
         NEW s \in {"open", "listen", "paste", "failed"}, Goes(l, s)
  PROVE  /\ login' \in [Shell ->
              [step : {"none", "open", "listen", "serve", "exchange", "paste",
                       "got", "failed"},
               conn : Shell \cup {None, "page", "silent"},
               fallback : BOOLEAN, token : Shell \cup {None}]]
         /\ CodeIsOwn'
<1> DEFINE Rec == [step : {"none", "open", "listen", "serve", "exchange", "paste",
                           "got", "failed"},
                   conn : Shell \cup {None, "page", "silent"},
                   fallback : BOOLEAN, token : Shell \cup {None}]
           r == [login[l] EXCEPT !.step = s, !.conn = None]
<1>1. login \in [Shell -> Rec]
  BY DEF LoginTypeOK
<1>2. login[l] \in Rec
  BY <1>1
<1>3. r \in Rec /\ r.step = s
  BY <1>2
<1>4. login' = [login EXCEPT ![l] = r]
  BY <1>1 DEF Goes
<1>5. login' \in [Shell -> Rec]
  BY <1>1, <1>3, <1>4
<1>6. CodeIsOwn'
  BY <1>1, <1>3, <1>4 DEF CodeIsOwn
<1>7. QED
  BY <1>5, <1>6

(* A step of a login keeps its variables in their types, and lets it hold   *)
(* no code but its own.                                                     *)
LEMMA LoginTypes ==
  ASSUME LoginTypeOK, CodeIsOwn, LoginStep
  PROVE  (LoginTypeOK /\ CodeIsOwn)' /\ budget'.calm = budget.calm
<1> USE NoneAssumption
<1>a. ASSUME NEW l \in Shell, GivesUp(l)
      PROVE  /\ login' \in [Shell ->
                  [step : {"none", "open", "listen", "serve", "exchange",
                           "paste", "got", "failed"},
                   conn : Shell \cup {None, "page", "silent"},
                   fallback : BOOLEAN, token : Shell \cup {None}]]
             /\ knock' \subseteq [to : Shell, sends : Shell \cup {"page", "silent"}]
             /\ CodeIsOwn'
  <2>1. knock' \subseteq knock
    BY <1>a DEF GivesUp
  <2>2. Goes(l, "paste") \/ Goes(l, "failed")
    BY <1>a DEF GivesUp
  <2>3. QED
    BY <2>1, <2>2, GivingUp DEF LoginTypeOK
<1> USE DEF LoginTypeOK, CodeIsOwn, Waiting
<1>1. ASSUME NEW l \in Shell, OpenBrowser(l)
      PROVE  (LoginTypeOK /\ CodeIsOwn)' /\ budget'.calm = budget.calm
  BY <1>1, <1>a, GivingUp DEF OpenBrowser
<1>2. ASSUME NEW l \in Shell, Serve(l)
      PROVE  (LoginTypeOK /\ CodeIsOwn)' /\ budget'.calm = budget.calm
  BY <1>2, GivingUp DEF Serve
<1>3. ASSUME NEW l \in Shell, Timeout(l)
      PROVE  (LoginTypeOK /\ CodeIsOwn)' /\ budget'.calm = budget.calm
  BY <1>3, <1>a DEF Timeout
<1>4. ASSUME NEW l \in Shell, NEW k \in knock, Accept(l, k)
      PROVE  (LoginTypeOK /\ CodeIsOwn)' /\ budget'.calm = budget.calm
  <2>1. k.sends \in Shell \cup {"page", "silent"} /\ knock' \subseteq knock
    BY <1>4 DEF Accept
  <2>2. login' = [login EXCEPT ![l].step = "serve", ![l].conn = k.sends]
        /\ UNCHANGED <<ticket, budget>>
    BY <1>4 DEF Accept
  <2> DEFINE r == [login[l] EXCEPT !.step = "serve", !.conn = k.sends]
  <2>3. login' = [login EXCEPT ![l] = r]
    BY <2>2
  <2>4. login[l] \in [step : {"none", "open", "listen", "serve", "exchange",
                             "paste", "got", "failed"},
                     conn : Shell \cup {None, "page", "silent"},
                     fallback : BOOLEAN, token : Shell \cup {None}]
    OBVIOUS
  <2>5. r \in [step : {"serve"}, conn : Shell \cup {None, "page", "silent"},
              fallback : BOOLEAN, token : Shell \cup {None}]
    BY <2>1, <2>4
  <2> HIDE DEF r
  <2>6. QED
    <3>1. login' \in [Shell ->
            [step : {"none", "open", "listen", "serve", "exchange", "paste",
                     "got", "failed"},
             conn : Shell \cup {None, "page", "silent"},
             fallback : BOOLEAN, token : Shell \cup {None}]]
      BY <2>3, <2>5
    <3>2. CodeIsOwn'
      <4>1. r.step = "serve"
        BY <2>5
      <4>2. QED
        BY <2>3, <4>1
    <3>3. QED
      BY <2>1, <2>2, <3>1, <3>2
<1>5. ASSUME NEW l \in Shell, NEW outcome \in {"done", "lost", "refused"},
             Exchange(l, outcome)
      PROVE  (LoginTypeOK /\ CodeIsOwn)' /\ budget'.calm = budget.calm
  <2>1. login[l].step = "exchange" /\ login[l].conn = l
    BY <1>5 DEF Exchange
  <2>2. CASE outcome = "done"
    BY <1>5, <2>1, <2>2 DEF Exchange
  <2>3. CASE outcome = "lost"
    BY <1>5, <2>1, <2>3, <1>a, Spending DEF Exchange
  <2>4. CASE outcome = "refused"
    BY <1>5, <2>1, <2>4, <1>a DEF Exchange
  <2>5. QED
    BY <2>2, <2>3, <2>4
<1>6. ASSUME NEW l \in Shell, NEW m \in Shell \cup {None}, SignIn(l, m)
      PROVE  (LoginTypeOK /\ CodeIsOwn)' /\ budget'.calm = budget.calm
  BY <1>6 DEF SignIn
<1>7. ASSUME NEW l \in Shell, NEW what \in {"page", "silent"}, Stray(l, what)
      PROVE  (LoginTypeOK /\ CodeIsOwn)' /\ budget'.calm = budget.calm
  BY <1>7, Spending DEF Stray
<1>8. ASSUME NEW l \in Shell, ExpireCode(l)
      PROVE  (LoginTypeOK /\ CodeIsOwn)' /\ budget'.calm = budget.calm
  BY <1>8 DEF ExpireCode
<1>9. ASSUME NEW l \in Shell, HangUp(l)
      PROVE  (LoginTypeOK /\ CodeIsOwn)' /\ budget'.calm = budget.calm
  BY <1>9, GivingUp DEF HangUp
<1>10. ASSUME NEW l \in Shell, BreakOff(l)
       PROVE  (LoginTypeOK /\ CodeIsOwn)' /\ budget'.calm = budget.calm
  BY <1>10, <1>a, Spending DEF BreakOff
<1>11. ASSUME NEW l \in Shell, Paste(l)
       PROVE  (LoginTypeOK /\ CodeIsOwn)' /\ budget'.calm = budget.calm
  BY <1>11, GivingUp DEF Paste
<1>12. QED
  BY <1>1, <1>2, <1>3, <1>4, <1>5, <1>6, <1>7, <1>8, <1>9, <1>10, <1>11
     DEF LoginStep, Proceeds, Browser

(* What the daemon makes of a map are engines with an id and a directory.   *)
LEMMA EnginesTyped ==
  ASSUME TypeOK
  PROVE  UNION {SpaceFor(n) \X {daemon.map[n]} : n \in Mapped(daemon.map)}
           \in SUBSET ((Space \cup {Own}) \X Dir)
<1>1. ASSUME NEW n \in Mapped(daemon.map)
      PROVE  SpaceFor(n) \subseteq Space \cup {Own} /\ daemon.map[n] \in Dir
  BY <1>1 DEF TypeOK, Map, Mapped, SpaceFor, Live
<1>2. QED
  BY <1>1

(* Every variable holds what the file, the commands and the daemon can, and *)
(* a login exchanges no code but its own.                                   *)
THEOREM TypeCorrect == Spec => [](TypeOK /\ CodeIsOwn)
<1> USE NoneAssumption, NameAssumption, DirAssumption, SpaceAssumption,
        ScenariosAssumption
<1>1. Init => TypeOK /\ CodeIsOwn
  <2> SUFFICES ASSUME Init PROVE TypeOK /\ CodeIsOwn
    OBVIOUS
  <2>1. budget \in Budget
    BY DEF Init, LoginInit
  <2>2. LoginTypeOK /\ CodeIsOwn
    BY <2>1 DEF Init, LoginInit, LoginTypeOK, CodeIsOwn, NotBegun
  <2>3. Default \in Config /\ Unmapped \in Map
    BY DEF Default, Config, Unmapped, Map
  <2>4. file \in Config \cup {Absent, Empty}
    BY <2>3 DEF Init, Config
  <2>5. Idle \in [step : {"idle"}, cfg : Config, id : {Own}, name : {None},
                 new : {None}, fresh : BOOLEAN]
    BY <2>3 DEF Idle
  <2>6. Stopped \in [step : {"stopped"}, map : Map, engines : {{}}]
    BY <2>3 DEF Stopped
  <2>7. bore \in [Space \cup {Own} -> SUBSET Name]
    BY DEF Init
  <2>8. QED
    BY <2>2, <2>4, <2>5, <2>6, <2>7 DEF Init, TypeOK
<1>2. TypeOK /\ CodeIsOwn /\ [Next]_vars => (TypeOK /\ CodeIsOwn)'
  <2> SUFFICES ASSUME TypeOK, CodeIsOwn, [Next]_vars
               PROVE  (TypeOK /\ CodeIsOwn)'
    OBVIOUS
  <2>1. CASE LoginStep /\ UNCHANGED own
    BY <2>1, LoginTypes DEF TypeOK, own
  <2>2. Default \in Config /\ Read \in Config /\ Loaded \in Config
    BY DEF TypeOK, Read, Loaded, Default, Config, Map, Unmapped
  <2>3. ASSUME NEW p \in Shell
        PROVE  /\ work[p].cfg \in Config
               /\ [Idle EXCEPT !.step = "end"] \in
                    [step : {"end"}, cfg : Config, id : {Own}, name : {None},
                     new : {None}, fresh : BOOLEAN]
    BY <2>2 DEF TypeOK, Idle
  <2> DEFINE Work == [step : {"idle", "login", "test", "update", "remap",
                              "truncate", "write", "end"},
                      cfg : Config, id : Space \cup {Own}, name : Name \cup {None},
                      new : Name \cup {None}, fresh : BOOLEAN]
  <2>a. work \in [Shell -> Work]
    BY DEF TypeOK
  <2>b. ASSUME work' \in [Shell -> Work], LoginTypeOK', CodeIsOwn',
               file' \in Config \cup {Absent, Empty},
               meant' \subseteq [name : Name, dir : Dir, for : SUBSET Space],
               space' \in [Space -> Name \cup {None}],
               bore' \in [Space \cup {Own} -> SUBSET Name],
               UNCHANGED daemon
        PROVE  (TypeOK /\ CodeIsOwn)'
    BY <2>b DEF TypeOK
  <2>c. ASSUME UNCHANGED flow, budget' \in Budget
        PROVE  LoginTypeOK' /\ CodeIsOwn'
    BY <2>c DEF TypeOK, LoginTypeOK, CodeIsOwn, flow
  <2>d. budget \in Budget
    BY DEF TypeOK, LoginTypeOK
  <2>e. ASSUME NEW p \in Shell, NEW r \in Work,
               work' = [work EXCEPT ![p] = r]
        PROVE  work' \in [Shell -> Work]
    BY <2>a, <2>e
  <2>f. ASSUME NEW p \in Shell, NEW cfg \in Config, Saves(p, cfg)
        PROVE  work' \in [Shell -> Work]
    <3> DEFINE r == [work[p] EXCEPT !.step = "truncate", !.cfg = cfg]
    <3>1. work' = [work EXCEPT ![p] = r]
      BY <2>a, <2>f DEF Saves
    <3>2. r \in Work
      BY <2>a, <2>f
    <3>3. QED
      BY <2>e, <3>1, <3>2
  <2>g. ASSUME NEW p \in Shell, Ends(p)
        PROVE  work' \in [Shell -> Work]
    BY <2>2, <2>a, <2>g DEF Ends, Idle
  <2>h. ASSUME NEW p \in Shell,
               NEW s \in {"login", "test", "remap", "write"}, Does(p, s)
        PROVE  work' \in [Shell -> Work]
    BY <2>a, <2>h DEF Does
  <2>4. ASSUME NEW p \in Shell, NEW force \in BOOLEAN, NEW terminal \in BOOLEAN,
               NEW auth \in Auth, StartLogin(p, force, auth, terminal)
        PROVE  (TypeOK /\ CodeIsOwn)'
    <3>1. LoginTypeOK' /\ CodeIsOwn'
      BY <2>4, <2>d, Spending
         DEF StartLogin, Begin, Auth, TypeOK, LoginTypeOK, CodeIsOwn, NotBegun
    <3>2. work' \in [Shell -> Work]
      <4> DEFINE r == [work[p] EXCEPT !.step = "login", !.fresh = (file = Absent)]
      <4>1. work' = [work EXCEPT ![p] = r]
        BY <2>4, <2>a DEF StartLogin
      <4>2. r \in Work
        BY <2>a
      <4>3. QED
        BY <2>e, <4>1, <4>2
    <3>3. QED
      BY <2>4, <2>b, <3>1, <3>2 DEF StartLogin, TypeOK
  <2>5. ASSUME NEW p \in Shell, NEW dir \in Dir, LoginLoads(p, dir)
        PROVE  (TypeOK /\ CodeIsOwn)'
    <3> DEFINE signed == [Read EXCEPT !.token = login[p].token]
               seeded == [signed EXCEPT !.map[Personal] = dir, !.ignore = "default"]
    <3>1. login[p].token \in Shell \cup {None}
      BY DEF TypeOK, LoginTypeOK
    <3>2. signed \in Config
      BY <2>2, <3>1 DEF Config
    <3>3. seeded \in Config
      BY <3>2 DEF Config, Map
    <3>4. work' \in [Shell -> Work]
      <4>1. work' = [work EXCEPT ![p].step = "test",
                       ![p].cfg = IF work[p].fresh THEN seeded ELSE signed]
        BY <2>5 DEF LoginLoads
      <4> HIDE DEF signed, seeded
      <4>2. QED
        <5> DEFINE r == [work[p] EXCEPT !.step = "test",
                           !.cfg = IF work[p].fresh THEN seeded ELSE signed]
        <5>1. work' = [work EXCEPT ![p] = r]
          BY <2>a, <4>1
        <5>2. r \in Work
          BY <2>a, <3>2, <3>3
        <5>3. QED
          BY <2>e, <5>1, <5>2
    <3>5. Wish(Personal, dir) \in [name : Name, dir : Dir, for : SUBSET Space]
      BY DEF Wish
    <3>6. meant' \subseteq [name : Name, dir : Dir, for : SUBSET Space]
      BY <2>5, <3>5 DEF LoginLoads, TypeOK
    <3>7. QED
      BY <2>5, <2>b, <2>c, <2>d, <3>4, <3>6 DEF LoginLoads, TypeOK
  <2>6. ASSUME NEW p \in Shell, LoginFails(p) PROVE (TypeOK /\ CodeIsOwn)'
    BY <2>6, <2>b, <2>c, <2>d, <2>g DEF LoginFails, TypeOK
  <2>7. ASSUME NEW p \in Shell, TestConnection(p) PROVE (TypeOK /\ CodeIsOwn)'
    BY <2>7, <2>3, <2>b, <2>c, <2>d, <2>f DEF TestConnection, TypeOK
  <2>8. ASSUME NEW p \in Shell, Logout(p) PROVE (TypeOK /\ CodeIsOwn)'
    <3>1. [Read EXCEPT !.token = None] \in Config
      BY <2>2 DEF Config
    <3>2. QED
      BY <2>8, <2>b, <2>c, <2>d, <2>f, <2>g, <3>1 DEF Logout, TypeOK
  <2>9. ASSUME NEW p \in Shell, NEW i \in Space, NEW byName \in BOOLEAN,
               NEW new \in Name \cup {None}, Resolves(p, i, byName, new)
        PROVE  (TypeOK /\ CodeIsOwn)'
    <3>1. space[i] \in Name \cup {None}
      BY DEF TypeOK
    <3>2. work' \in [Shell -> Work]
      <4> DEFINE r == [work[p] EXCEPT !.step = "update", !.id = i,
                         !.name = space[i], !.new = new]
      <4>1. work' = [work EXCEPT ![p] = r]
        BY <2>9, <2>a DEF Resolves, Resolve
      <4>2. r \in Work
        BY <2>a, <3>1
      <4>3. QED
        BY <2>e, <4>1, <4>2
    <3>3. QED
      BY <2>9, <2>b, <2>c, <2>d, <3>2 DEF Resolves, TypeOK
  <2>10. ASSUME NEW p \in Shell, NEW outcome \in {"done", "refused", "lost"},
                Update(p, outcome)
         PROVE  (TypeOK /\ CodeIsOwn)'
    <3>1. work' \in [Shell -> Work]
      BY <2>10, <2>g, <2>h DEF Update
    <3>2. budget' \in Budget
      BY <2>10, <2>d, Spending DEF Update
    <3>3. work[p].id \in Space \cup {Own} /\ work[p].new \in Name \cup {None}
      BY <2>a
    <3>4. /\ space' \in [Space -> Name \cup {None}]
          /\ bore' \in [Space \cup {Own} -> SUBSET Name]
      BY <2>10, <3>3 DEF Update, SpaceIs, TypeOK
    <3>5. QED
      BY <2>10, <2>b, <2>c, <3>1, <3>2, <3>4 DEF Update, TypeOK
  <2>11. ASSUME NEW p \in Shell, Remap(p) PROVE (TypeOK /\ CodeIsOwn)'
    <3> DEFINE old == work[p].name
               moved == [Read EXCEPT !.map = Moved(@, old, work[p].new)]
    <3>1. ASSUME old \in Name
          PROVE  moved \in Config
      BY <2>2, <3>1 DEF Moved, Config, Map
    <3>2. old \in Name \cup {None}
      BY <2>a
    <3>3. work' \in [Shell -> Work]
      BY <2>11, <2>f, <2>g, <3>1, <3>2 DEF Remap
    <3>4. QED
      BY <2>11, <2>b, <2>c, <2>d, <3>3 DEF Remap, TypeOK
  <2>12. ASSUME NEW p \in Shell, Truncate(p) \/ Write(p) \/ Crash(p)
         PROVE  (TypeOK /\ CodeIsOwn)'
    <3>1. work' \in [Shell -> Work] /\ budget' \in Budget
      BY <2>12, <2>d, <2>g, <2>h, Spending DEF Truncate, Write, Crash
    <3>2. file' \in Config \cup {Absent, Empty}
      BY <2>12, <2>3 DEF Truncate, Write, Crash, TypeOK
    <3>3. QED
      BY <2>12, <2>b, <2>c, <3>1, <3>2 DEF Truncate, Write, Crash, TypeOK
  <2>13. ASSUME NEW n \in Name, NEW dir \in Dir, HandMap(n, dir)
         PROVE  (TypeOK /\ CodeIsOwn)'
    <3>1. \E c \in Config : file' = [c EXCEPT !.map[n] = dir]
      <4>1. [Default EXCEPT !.ignore = "user"] \in Config
        BY <2>2 DEF Config
      <4>2. file \notin {Absent, Empty} => file \in Config
        BY DEF TypeOK
      <4>3. QED
        BY <2>13, <4>1, <4>2 DEF HandMap
    <3>2. file' \in Config
      BY <3>1 DEF Config, Map
    <3>3. Wish(n, dir) \in [name : Name, dir : Dir, for : SUBSET Space]
      BY DEF Wish
    <3>4. budget' \in Budget /\ work' \in [Shell -> Work]
      BY <2>13, <2>a, <2>d, Spending DEF HandMap
    <3>5. meant' \subseteq [name : Name, dir : Dir, for : SUBSET Space]
      BY <2>13, <3>3 DEF HandMap, TypeOK
    <3>6. QED
      BY <2>13, <2>b, <2>c, <3>2, <3>4, <3>5 DEF HandMap, TypeOK
  <2>14. ASSUME NEW i \in Space, NEW n \in Name \cup {None}, SpaceIs(i, n),
                UNCHANGED <<flow, file, work, daemon, meant>>, budget' \in Budget
         PROVE  (TypeOK /\ CodeIsOwn)'
    BY <2>14, <2>b, <2>c DEF SpaceIs, TypeOK
  <2> USE DEF TypeOK, flow
  <2>15. CASE Others
    BY <2>13, <2>14, <2>15, Spending
       DEF Others, CreateSpace, RenamedElsewhere, LoginTypeOK
  <2>16. CASE DaemonLoads
    BY <2>16, <2>2, Spending DEF DaemonLoads, Config, LoginTypeOK, CodeIsOwn
  <2>17. CASE DaemonResolves
    BY <2>17, EnginesTyped
       DEF DaemonResolves, Stopped, Unmapped, Map, LoginTypeOK, CodeIsOwn
  <2>18. CASE DaemonStops
    BY <2>18 DEF DaemonStops, Stopped, Unmapped, Map, LoginTypeOK, CodeIsOwn
  <2>19. CASE UNCHANGED vars
    BY <2>19 DEF vars, own, LoginTypeOK, CodeIsOwn
  <2> HIDE DEF TypeOK, flow
  <2>20. CASE Commands
    BY <2>4, <2>5, <2>6, <2>7, <2>8, <2>9, <2>10, <2>11, <2>12, <2>20
       DEF Commands, StartRm, StartRename
  <2>21. QED
    BY <2>1, <2>15, <2>16, <2>17, <2>18, <2>19, <2>20 DEF Next
<1>3. QED
  BY <1>1, <1>2, PTL DEF Spec
-----------------------------------------------------------------------------
(* A login that has not begun, or is over, does not move by itself, and one *)
(* that has begun is never as if it had not.                                *)
LEMMA LoginMoves ==
  ASSUME LoginTypeOK, CodeIsOwn, LoginStep, NEW p \in Shell
  PROVE  /\ login[p].step \in {"none", "got", "failed"} => login'[p] = login[p]
         /\ login[p].step # "none" => login'[p].step # "none"
<1> USE DEF LoginTypeOK
<1>1. ASSUME NEW l \in Shell, NEW s \in {"open", "listen", "paste", "failed"},
             Goes(l, s), login[l].step \notin {"none", "got", "failed"}
      PROVE  /\ login[p].step \in {"none", "got", "failed"} => login'[p] = login[p]
             /\ login[p].step # "none" => login'[p].step # "none"
  <2>1. login' = [login EXCEPT ![l] = [login[l] EXCEPT !.step = s, !.conn = None]]
    BY <1>1 DEF Goes
  <2>2. QED
    BY <1>1, <2>1
<1>2. ASSUME NEW l \in Shell, GivesUp(l),
             login[l].step \notin {"none", "got", "failed"}
      PROVE  /\ login[p].step \in {"none", "got", "failed"} => login'[p] = login[p]
             /\ login[p].step # "none" => login'[p].step # "none"
  BY <1>1, <1>2 DEF GivesUp
<1>3. ASSUME NEW l \in Shell, Proceeds(l)
      PROVE  /\ login[p].step \in {"none", "got", "failed"} => login'[p] = login[p]
             /\ login[p].step # "none" => login'[p].step # "none"
  <2>1. CASE OpenBrowser(l)
    BY <1>1, <1>2, <2>1 DEF OpenBrowser
  <2>2. CASE Serve(l)
    BY <1>1, <2>2 DEF Serve
  <2>3. CASE Timeout(l)
    BY <1>2, <2>3 DEF Timeout, Waiting
  <2>4. ASSUME NEW k \in knock, Accept(l, k)
        PROVE  /\ login[p].step \in {"none", "got", "failed"} => login'[p] = login[p]
               /\ login[p].step # "none" => login'[p].step # "none"
    <3>1. login' = [login EXCEPT ![l] =
                      [login[l] EXCEPT !.step = "serve", !.conn = k.sends]]
          /\ login[l].step = "listen"
      BY <2>4 DEF Accept
    <3>2. QED
      BY <3>1
  <2>5. ASSUME NEW outcome \in {"done", "lost", "refused"}, Exchange(l, outcome)
        PROVE  /\ login[p].step \in {"none", "got", "failed"} => login'[p] = login[p]
               /\ login[p].step # "none" => login'[p].step # "none"
    <3>1. login[l].step = "exchange"
      BY <2>5 DEF Exchange
    <3>2. CASE outcome = "done"
      <4>1. login' = [login EXCEPT ![l] = [login[l] EXCEPT !.step = "got",
                        !.conn = None, !.token = login[l].conn]]
        BY <2>5, <3>2 DEF Exchange
      <4>2. QED
        BY <3>1, <4>1
    <3>3. CASE outcome # "done"
      BY <1>2, <2>5, <3>1, <3>3 DEF Exchange
    <3>4. QED
      BY <3>2, <3>3
  <2>6. QED
    BY <1>3, <2>1, <2>2, <2>3, <2>4, <2>5 DEF Proceeds
<1>4. ASSUME NEW l \in Shell, Browser(l)
      PROVE  /\ login[p].step \in {"none", "got", "failed"} => login'[p] = login[p]
             /\ login[p].step # "none" => login'[p].step # "none"
  <2>1. CASE login' = login
    BY <2>1
  <2>2. CASE HangUp(l)
    BY <1>1, <2>2 DEF HangUp
  <2>3. CASE BreakOff(l)
    BY <1>2, <2>3 DEF BreakOff
  <2>4. CASE Paste(l)
    BY <1>1, <2>4 DEF Paste
  <2>5. QED
    BY <1>4, <2>1, <2>2, <2>3, <2>4 DEF Browser, SignIn, Stray, ExpireCode
<1>5. QED
  BY <1>3, <1>4 DEF LoginStep

(* What a login brings into the file.                                       *)
SignInInv == LoginAlone /\ OwnToSave /\ TokensIssued

(* A command works on its own record; the logins move only by StartLogin,   *)
(* which needs an idle shell.                                               *)
LEMMA SignInKept ==
  ASSUME TypeOK, CodeIsOwn, SignInInv, [Next]_vars
  PROVE  SignInInv'
<1> USE NoneAssumption DEF SignInInv
<1>1. CASE LoginStep /\ UNCHANGED own
  <2>1. ASSUME NEW p \in Shell
        PROVE  /\ login[p].step \in {"none", "got", "failed"} => login'[p] = login[p]
               /\ login[p].step # "none" => login'[p].step # "none"
    BY <1>1, LoginMoves DEF TypeOK
  <2>2. QED
    BY <1>1, <2>1 DEF own, LoginAlone, OwnToSave, TokensIssued
<1>2. Read.token \in Shell \cup {None} /\ Default.token = None
  BY DEF TokensIssued, Read, Default
<1>3. Read \in Config
  BY DEF TypeOK, Read, Default, Config, Map, Unmapped
<1>t. work \in [Shell -> [step : {"idle", "login", "test", "update", "remap",
                                  "truncate", "write", "end"},
        cfg : Config, id : Space \cup {Own}, name : Name \cup {None},
        new : Name \cup {None}, fresh : BOOLEAN]]
  BY DEF TypeOK
<1>s. login \in [Shell -> [step : {"none", "open", "listen", "serve", "exchange",
                                   "paste", "got", "failed"},
        conn : Shell \cup {None, "page", "silent"},
        fallback : BOOLEAN, token : Shell \cup {None}]]
  BY DEF TypeOK, LoginTypeOK
(* The steps of a command that keep the logins and the file.                *)
<1>4. ASSUME NEW p \in Shell, UNCHANGED <<login, file>>,
             \A q \in Shell \ {p} : work'[q] = work[q],
             work'[p].cfg.token \in Shell \cup {None},
             \/ work'[p].step = "end"
             \/ work'[p].step \in {"update", "remap"} /\ login[p].step = "none"
             \/ /\ work'[p].step \in {"test", "truncate", "write"}
                /\ login[p].step \in {"none", "got"}
                /\ login[p].step = "got" => work'[p].cfg.token = p
      PROVE  SignInInv'
  BY <1>4 DEF LoginAlone, OwnToSave, TokensIssued
<1>5. ASSUME NEW p \in Shell, Ends(p), UNCHANGED <<login, file>>
      PROVE  SignInInv'
  <2>1. work'[p].step = "end" /\ work'[p].cfg = Default
        /\ \A q \in Shell \ {p} : work'[q] = work[q]
    BY <1>5, <1>t DEF Ends, Idle
  <2>2. QED
    BY <1>2, <1>4, <1>5, <2>1
<1>6. ASSUME NEW p \in Shell, NEW cfg, Saves(p, cfg), UNCHANGED <<login, file>>,
             cfg.token \in Shell \cup {None}, login[p].step \in {"none", "got"},
             login[p].step = "got" => cfg.token = p
      PROVE  SignInInv'
  <2>1. work'[p].step = "truncate" /\ work'[p].cfg = cfg
        /\ \A q \in Shell \ {p} : work'[q] = work[q]
    BY <1>6, <1>t DEF Saves
  <2>2. QED
    BY <1>4, <1>6, <2>1
<1>7. ASSUME NEW p \in Shell, NEW s \in {"remap", "write"}, Does(p, s)
      PROVE  /\ work'[p].step = s /\ work'[p].cfg = work[p].cfg
             /\ \A q \in Shell \ {p} : work'[q] = work[q]
  BY <1>7, <1>t DEF Does
<1>8. ASSUME NEW p \in Shell, NEW force \in BOOLEAN, NEW terminal \in BOOLEAN,
             NEW auth \in Auth, StartLogin(p, force, auth, terminal)
      PROVE  SignInInv'
  <2>1. /\ login[p] = NotBegun
        /\ login'[p].step # "none" /\ login'[p].step # "got"
        /\ \A q \in Shell \ {p} : login'[q] = login[q]
    BY <1>8, <1>s DEF StartLogin, Begin
  <2>2. work'[p].step = "login" /\ work'[p].cfg = work[p].cfg /\ file' = file
        /\ \A q \in Shell \ {p} : work'[q] = work[q]
    BY <1>8, <1>t DEF StartLogin
  <2>3. LoginAlone'
    BY <2>1, <2>2 DEF LoginAlone
  <2>4. OwnToSave'
    BY <2>1, <2>2 DEF OwnToSave
  <2>5. TokensIssued'
    BY <2>2 DEF TokensIssued
  <2>6. QED
    BY <2>3, <2>4, <2>5
<1>9. ASSUME NEW p \in Shell, NEW dir \in Dir, LoginLoads(p, dir)
      PROVE  SignInInv'
  <2> DEFINE signed == [Read EXCEPT !.token = login[p].token]
             seeded == [signed EXCEPT !.map[Personal] = dir, !.ignore = "default"]
  <2>1. signed.token = login[p].token /\ signed \in Config
    BY <1>3, <1>s DEF Config
  <2>2. seeded.token = login[p].token
    BY <2>1 DEF Config
  <2>3. login[p].step = "got" /\ login[p].token = p
    BY <1>9 DEF LoginLoads, CodeIsOwn
  <2>4. work'[p].step = "test" /\ work'[p].cfg \in {signed, seeded}
        /\ \A q \in Shell \ {p} : work'[q] = work[q]
    BY <1>9, <1>t DEF LoginLoads
  <2>5. UNCHANGED <<login, file>>
    BY <1>9 DEF LoginLoads, flow
  <2> HIDE DEF signed, seeded
  <2>6. work'[p].cfg.token = p
    BY <2>1, <2>2, <2>3, <2>4
  <2>7. QED
    BY <1>4, <2>3, <2>4, <2>5, <2>6
<1>10. ASSUME NEW p \in Shell, LoginFails(p) PROVE SignInInv'
  BY <1>5, <1>10 DEF LoginFails, flow
<1>11. ASSUME NEW p \in Shell, TestConnection(p) PROVE SignInInv'
  BY <1>6, <1>11 DEF TestConnection, flow, LoginAlone, OwnToSave, TokensIssued
<1>12. ASSUME NEW p \in Shell, Logout(p) PROVE SignInInv'
  <2>1. login[p].step = "none"
    BY <1>12 DEF Logout, MayBegin, LoginAlone
  <2>2. [Read EXCEPT !.token = None].token = None
    BY <1>3 DEF Config
  <2>3. QED
    BY <1>5, <1>6, <1>12, <2>1, <2>2 DEF Logout, flow
<1>13. ASSUME NEW p \in Shell, NEW i \in Space, NEW byName \in BOOLEAN,
              NEW new \in Name \cup {None}, Resolves(p, i, byName, new)
       PROVE  SignInInv'
  <2>1. work'[p].step = "update" /\ work'[p].cfg = work[p].cfg
        /\ \A q \in Shell \ {p} : work'[q] = work[q]
    BY <1>13, <1>t DEF Resolves
  <2>2. login[p].step = "none" /\ UNCHANGED <<login, file>>
    BY <1>13 DEF Resolves, MayBegin, LoginAlone, flow
  <2>3. QED
    BY <1>4, <2>1, <2>2 DEF TokensIssued
<1>14. ASSUME NEW p \in Shell, NEW outcome \in {"done", "refused", "lost"},
              Update(p, outcome)
       PROVE  SignInInv'
  <2>1. login[p].step = "none" /\ UNCHANGED <<login, file>>
    BY <1>14 DEF Update, LoginAlone, flow
  <2>2. CASE Ends(p)
    BY <1>5, <2>1, <2>2
  <2>3. CASE Does(p, "remap")
    BY <1>4, <1>7, <2>1, <2>3 DEF TokensIssued
  <2>4. QED
    BY <1>14, <2>2, <2>3 DEF Update
<1>15. ASSUME NEW p \in Shell, Remap(p) PROVE SignInInv'
  <2>1. login[p].step = "none" /\ UNCHANGED <<login, file>>
    BY <1>15 DEF Remap, LoginAlone, flow
  <2>2. [Read EXCEPT !.map = Moved(@, work[p].name, work[p].new)].token = Read.token
    BY <1>3 DEF Config
  <2>3. QED
    BY <1>2, <1>5, <1>6, <1>15, <2>1, <2>2 DEF Remap
<1>16. ASSUME NEW p \in Shell, Truncate(p) PROVE SignInInv'
  BY <1>7, <1>16 DEF Truncate, flow, LoginAlone, OwnToSave, TokensIssued
<1>17. ASSUME NEW p \in Shell, Write(p) PROVE SignInInv'
  <2>1. work'[p].step = "end" /\ work'[p].cfg = Default
        /\ \A q \in Shell \ {p} : work'[q] = work[q]
    BY <1>17, <1>t DEF Write, Ends, Idle
  <2>2. file' = work[p].cfg /\ login' = login
    BY <1>17 DEF Write, flow
  <2>3. QED
    BY <1>2, <2>1, <2>2 DEF LoginAlone, OwnToSave, TokensIssued
<1>18. ASSUME NEW p \in Shell, Crash(p) PROVE SignInInv'
  BY <1>5, <1>18 DEF Crash, flow
<1>19. CASE Others
  <2>1. ASSUME NEW n \in Name, NEW dir \in Dir, HandMap(n, dir)
        PROVE  SignInInv'
    <3>1. \E c \in {Read, [Default EXCEPT !.ignore = "user"]} :
            file' = [c EXCEPT !.map[n] = dir]
      BY <2>1 DEF HandMap, Read
    <3>2. Default \in Config
      BY DEF Default, Config, Map, Unmapped
    <3>3. \A c \in Config : [c EXCEPT !.map[n] = dir].token = c.token
      BY DEF Config
    <3>4. [Default EXCEPT !.ignore = "user"] \in Config
          /\ [Default EXCEPT !.ignore = "user"].token = None
      BY <3>2 DEF Config, Default
    <3>5. file'.token \in Shell \cup {None}
      BY <1>2, <1>3, <3>1, <3>3, <3>4
    <3>6. QED
      BY <2>1, <3>5 DEF HandMap, flow, LoginAlone, OwnToSave, TokensIssued
  <2>2. CASE UNCHANGED <<flow, file, work>>
    BY <2>2 DEF flow, LoginAlone, OwnToSave, TokensIssued
  <2>3. QED
    BY <1>19, <2>1, <2>2 DEF Others, CreateSpace, RenamedElsewhere
<1>20. CASE UNCHANGED <<flow, file, work>>
  BY <1>20 DEF flow, LoginAlone, OwnToSave, TokensIssued
<1>21. QED
  BY <1>1, <1>8, <1>9, <1>10, <1>11, <1>12, <1>13, <1>14, <1>15, <1>16, <1>17,
     <1>18, <1>19, <1>20
     DEF Next, Commands, StartRm, StartRename, DaemonLoads, DaemonResolves,
         DaemonStops, vars, own

(* The login part of the invariant holds in every state.                    *)
LEMMA SignInInvariance == Spec => []SignInInv
<1>1. Init => SignInInv
  BY NoneAssumption DEF Init, SignInInv, LoginInit, LoginAlone, OwnToSave,
     TokensIssued, NotBegun, Idle, Default
<1>2. QED
  BY <1>1, SignInKept, TypeCorrect, PTL DEF Spec

(* The token a login saves was issued to the flow that login started, in    *)
(* however many shells at once a browser answers.                           *)
THEOREM TokenIsOwn == Spec => []OwnToken
<1>1. SignInInv => OwnToken
  BY DEF SignInInv, OwnToSave, OwnToken
<1>2. QED
  BY <1>1, SignInInvariance, PTL

(* What key_command prints never gets into the file, nor into a config that *)
(* a command is about to save.                                              *)
THEOREM SecretNeverSaved == Spec => []SecretStaysOut
<1>1. SignInInv => SecretStaysOut
  BY VaultAssumption DEF SignInInv, TokensIssued, SecretStaysOut
<1>2. QED
  BY <1>1, SignInInvariance, PTL
-----------------------------------------------------------------------------
(* What the maps name, and what the daemon makes of them.                   *)
MapsInv == NamesDistinct /\ Renaming /\ MapsBacked /\ EnginesKeepToTheirs

(* Neither the user's wishes nor a space's past names are ever forgotten.   *)
LEMMA HistoryGrows ==
  ASSUME TypeOK, [Next]_vars
  PROVE  meant \subseteq meant' /\ \A i \in Space \cup {Own} : bore[i] \subseteq bore'[i]
<1>1. ASSUME NEW i \in Space, NEW n \in Name \cup {None}, SpaceIs(i, n)
      PROVE  \A j \in Space \cup {Own} : bore[j] \subseteq bore'[j]
  BY <1>1 DEF SpaceIs, TypeOK
<1>2. CASE UNCHANGED <<meant, bore>>
  BY <1>2
<1>3. ASSUME NEW p \in Shell, NEW outcome, Update(p, outcome)
      PROVE  meant' = meant /\ \A j \in Space \cup {Own} : bore[j] \subseteq bore'[j]
  <2>1. work[p].new \in Name \cup {None}
    BY DEF TypeOK
  <2>2. CASE bore' = bore
    BY <1>3, <2>2 DEF Update
  <2>3. CASE bore' # bore
    BY <1>1, <1>3, <2>1, <2>3 DEF Update, Live
  <2>4. QED
    BY <2>2, <2>3
<1>4. CASE Others
  BY <1>1, <1>4 DEF Others, HandMap, CreateSpace, RenamedElsewhere
<1>5. CASE Commands
  <2>1. ASSUME NEW p \in Shell, NEW dir \in Dir, LoginLoads(p, dir)
        PROVE  meant \subseteq meant' /\ bore' = bore
    BY <2>1 DEF LoginLoads
  <2>2. ASSUME NEW p \in Shell, NEW outcome, Update(p, outcome)
        PROVE  meant \subseteq meant' /\ \A i \in Space \cup {Own} : bore[i] \subseteq bore'[i]
    BY <1>3, <2>2
  <2>3. ASSUME NEW p \in Shell, NEW i \in Space, NEW byName \in BOOLEAN,
               NEW new \in Name \cup {None}, Resolves(p, i, byName, new)
        PROVE  UNCHANGED <<meant, bore>>
    BY <2>3 DEF Resolves
  <2>4. ASSUME NEW p \in Shell, NEW force \in BOOLEAN, NEW terminal \in BOOLEAN,
               NEW auth \in Auth, StartLogin(p, force, auth, terminal)
        PROVE  UNCHANGED <<meant, bore>>
    BY <2>4 DEF StartLogin
  <2>5. ASSUME NEW p \in Shell,
               LoginFails(p) \/ TestConnection(p) \/ Logout(p) \/ Remap(p)
                 \/ Truncate(p) \/ Write(p) \/ Crash(p)
        PROVE  UNCHANGED <<meant, bore>>
    BY <2>5
       DEF LoginFails, TestConnection, Logout, Remap, Truncate, Write, Crash
  <2>6. QED
    BY <1>2, <1>5, <2>1, <2>2, <2>3, <2>4, <2>5
       DEF Commands, StartRm, StartRename
<1>6. QED
  BY <1>2, <1>4, <1>5
     DEF Next, own, vars, DaemonLoads, DaemonResolves, DaemonStops

(* A map that goes back to the user's wishes keeps doing so.                *)
LEMMA BackedStays ==
  ASSUME NEW map, Backed(map), meant \subseteq meant',
         \A i \in Space \cup {Own} : bore[i] \subseteq bore'[i]
  PROVE  Backed(map)'
<1>1. \A m, n : Related(m, n) => Related(m, n)'
  BY DEF Related
<1>2. QED
  BY <1>1 DEF Backed

(* A space takes a name that none other ever bore.                          *)
LEMMA NameTaken ==
  ASSUME TypeOK, NamesDistinct, NEW i \in Space, NEW n \in Name \cup {None},
         SpaceIs(i, n), n # None => MayBear(i, n)
  PROVE  /\ NamesDistinct'
         /\ n # None => n \in bore'[i]
         /\ \A j \in Space \cup {Own} : j # i => bore'[j] = bore[j]
         /\ bore[i] \subseteq bore'[i]
<1>1. \A j \in Space \cup {Own} :
        bore'[j] = IF j = i /\ n # None THEN bore[j] \cup {n} ELSE bore[j]
  BY DEF SpaceIs, TypeOK
<1>2. \A j \in Space : space'[j] = IF j = i THEN n ELSE space[j]
  BY DEF SpaceIs, TypeOK
<1>3. i # Own
  BY SpaceAssumption DEF Own
<1>4. Personal \in bore'[Own]
  BY <1>1, <1>3 DEF NamesDistinct
<1>5. \A j \in Space : space'[j] # None => space'[j] \in bore'[j]
  BY <1>1, <1>2 DEF NamesDistinct
<1>6. ASSUME NEW j \in Space \cup {Own}, NEW k \in Space \cup {Own},
             NEW m \in bore'[j] \cap bore'[k]
      PROVE  j = k
  <2>1. CASE m \in bore[j] /\ m \in bore[k]
    BY <2>1 DEF NamesDistinct
  <2>2. CASE m \notin bore[j]
    <3>1. j = i /\ m = n /\ n # None
      BY <1>1, <1>6, <2>2
    <3>2. k = i \/ n \in bore[k]
      BY <1>1, <1>6, <3>1
    <3>3. QED
      BY <3>1, <3>2 DEF MayBear
  <2>3. CASE m \notin bore[k]
    <3>1. k = i /\ m = n /\ n # None
      BY <1>1, <1>6, <2>3
    <3>2. j = i \/ n \in bore[j]
      BY <1>1, <1>6, <3>1
    <3>3. QED
      BY <3>1, <3>2 DEF MayBear
  <2>4. QED
    BY <2>1, <2>2, <2>3
<1>7. NamesDistinct'
  BY <1>4, <1>5, <1>6 DEF NamesDistinct
<1>8. QED
  BY <1>1, <1>7

(* NamesDistinct and Renaming: who may take a name, and what a command that *)
(* renames a space knows of it.                                             *)
LEMMA NamesKept ==
  ASSUME TypeOK, NamesDistinct, Renaming, [Next]_vars
  PROVE  NamesDistinct' /\ Renaming'
<1> USE NoneAssumption, NameAssumption, SpaceAssumption
<1>t. work \in [Shell -> [step : {"idle", "login", "test", "update", "remap",
                                  "truncate", "write", "end"},
        cfg : Config, id : Space \cup {Own}, name : Name \cup {None},
        new : Name \cup {None}, fresh : BOOLEAN]]
  BY DEF TypeOK
<1>g. \A i \in Space \cup {Own} : bore[i] \subseteq bore'[i]
  BY HistoryGrows
<1>1. ASSUME UNCHANGED <<space, bore>> PROVE NamesDistinct'
  BY <1>1 DEF NamesDistinct
<1>2. ASSUME NEW p \in Shell, work'[p].step \notin {"update", "remap"},
             \A q \in Shell \ {p} : work'[q] = work[q]
      PROVE  Renaming'
  BY <1>2, <1>g DEF Renaming
<1>3. ASSUME NEW p \in Shell, Ends(p) PROVE Renaming'
  <2>1. work'[p].step = "end" /\ \A q \in Shell \ {p} : work'[q] = work[q]
    BY <1>3, <1>t DEF Ends, Idle
  <2>2. QED
    BY <1>2, <2>1
<1>4. ASSUME NEW p \in Shell, NEW cfg, Saves(p, cfg) PROVE Renaming'
  <2>1. work'[p].step = "truncate" /\ \A q \in Shell \ {p} : work'[q] = work[q]
    BY <1>4, <1>t DEF Saves
  <2>2. QED
    BY <1>2, <2>1
<1>5. ASSUME work' = work PROVE Renaming'
  BY <1>5, <1>g DEF Renaming
<1>6. ASSUME NEW p \in Shell, NEW force \in BOOLEAN, NEW terminal \in BOOLEAN,
             NEW auth \in Auth, StartLogin(p, force, auth, terminal)
      PROVE  NamesDistinct' /\ Renaming'
  <2>1. work'[p].step = "login" /\ \A q \in Shell \ {p} : work'[q] = work[q]
    BY <1>6, <1>t DEF StartLogin
  <2>2. QED
    BY <1>1, <1>2, <1>6, <2>1 DEF StartLogin
<1>7. ASSUME NEW p \in Shell, NEW dir \in Dir, LoginLoads(p, dir)
      PROVE  NamesDistinct' /\ Renaming'
  <2>1. work'[p].step = "test" /\ \A q \in Shell \ {p} : work'[q] = work[q]
    BY <1>7, <1>t DEF LoginLoads
  <2>2. QED
    BY <1>1, <1>2, <1>7, <2>1 DEF LoginLoads
<1>8. ASSUME NEW p \in Shell,
             LoginFails(p) \/ TestConnection(p) \/ Logout(p) \/ Remap(p)
               \/ Write(p) \/ Crash(p)
      PROVE  NamesDistinct' /\ Renaming'
  BY <1>1, <1>3, <1>4, <1>8
     DEF LoginFails, TestConnection, Logout, Remap, Write, Crash
<1>9. ASSUME NEW p \in Shell, NEW i \in Space, NEW byName \in BOOLEAN,
             NEW new \in Name \cup {None}, Resolves(p, i, byName, new)
      PROVE  NamesDistinct' /\ Renaming'
  <2>1. /\ work'[p].step = "update" /\ work'[p].id = i /\ work'[p].name = space[i]
        /\ \A q \in Shell \ {p} : work'[q] = work[q]
    BY <1>9, <1>t DEF Resolves, Resolve
  <2>2. space[i] \in bore[i] /\ UNCHANGED <<space, bore>>
    BY <1>9 DEF Resolves, NamesDistinct, Live
  <2>3. QED
    BY <1>1, <2>1, <2>2 DEF Renaming
<1>10. ASSUME NEW p \in Shell, NEW outcome \in {"done", "refused", "lost"},
              Update(p, outcome)
       PROVE  NamesDistinct' /\ Renaming'
  <2>1. /\ work[p].id \in Space /\ work[p].name \in bore[work[p].id]
        /\ work[p].new \in Name \cup {None}
    BY <1>10, <1>t DEF Update, Renaming
  <2>2. CASE outcome = "refused"
    BY <1>1, <1>3, <1>10, <2>2 DEF Update
  <2>3. CASE outcome # "refused"
    <3>1. /\ SpaceIs(work[p].id, work[p].new)
          /\ work[p].new # None => MayBear(work[p].id, work[p].new)
      BY <1>10, <2>3 DEF Update
    <3>2. NamesDistinct' /\ (work[p].new # None => work[p].new \in bore'[work[p].id])
      BY <2>1, <3>1, NameTaken
    <3>3. CASE Ends(p)
      BY <1>3, <3>2, <3>3
    <3>4. CASE Does(p, "remap")
      <4>1. /\ work'[p].id = work[p].id /\ work'[p].name = work[p].name
            /\ work'[p].new = work[p].new
            /\ \A q \in Shell \ {p} : work'[q] = work[q]
        BY <1>t, <3>4 DEF Does
      <4>2. QED
        BY <1>g, <2>1, <3>2, <4>1 DEF Renaming
    <3>5. QED
      BY <1>10, <3>3, <3>4 DEF Update
  <2>4. QED
    BY <2>2, <2>3
<1>11. ASSUME NEW p \in Shell, Truncate(p) PROVE NamesDistinct' /\ Renaming'
  <2>1. work'[p].step = "write" /\ \A q \in Shell \ {p} : work'[q] = work[q]
    BY <1>11, <1>t DEF Truncate, Does
  <2>2. QED
    BY <1>1, <1>2, <1>11, <2>1 DEF Truncate
<1>12. CASE Others
  BY <1>1, <1>5, <1>12, NameTaken
     DEF Others, HandMap, CreateSpace, RenamedElsewhere
<1>13. CASE UNCHANGED <<work, space, bore>>
  BY <1>1, <1>5, <1>13
<1>14. QED
  BY <1>6, <1>7, <1>8, <1>9, <1>10, <1>11, <1>12, <1>13
     DEF Next, Commands, StartRm, StartRename, DaemonLoads, DaemonResolves,
         DaemonStops, vars, own
(* A renamed space takes its directory along, a removed one leaves it.      *)
LEMMA MovedBacked ==
  ASSUME TypeOK, NamesDistinct, NEW map \in Map, Backed(map),
         NEW i \in Space, NEW old \in bore[i], NEW new \in bore[i] \cup {None}
  PROVE  Backed(Moved(map, old, new))
<1> SUFFICES ASSUME NEW n \in Name, Moved(map, old, new)[n] # None
             PROVE  \E w \in meant : /\ w.dir = Moved(map, old, new)[n]
                                     /\ Related(n, w.name)
  BY DEF Backed
<1>1. old \in Name
  BY DEF TypeOK
<1>2. CASE n = new
  <2>1. Moved(map, old, new)[n] = map[old] /\ new \in bore[i]
    BY <1>2, NameAssumption DEF Moved
  <2>2. PICK w \in meant : w.dir = map[old] /\ Related(old, w.name)
    BY <1>1, <2>1 DEF Backed
  <2>3. Related(n, w.name)
    <3>1. CASE old = w.name
      BY <1>2, <2>1, <3>1 DEF Related
    <3>2. ASSUME NEW j \in Space \cup {Own}, {old, w.name} \subseteq bore[j]
          PROVE  Related(n, w.name)
      BY <1>2, <2>1, <3>2 DEF Related, NamesDistinct
    <3>3. QED
      BY <2>2, <3>1, <3>2 DEF Related
  <2>4. QED
    BY <2>1, <2>2, <2>3
<1>3. CASE n # new
  BY <1>3 DEF Moved, Backed
<1>4. QED
  BY <1>2, <1>3

(* The map the user's editor leaves.                                        *)
LEMMA MappedByHand ==
  ASSUME TypeOK, NEW n \in Name, NEW dir \in Dir, HandMap(n, dir)
  PROVE  (Read.map)' = [Read.map EXCEPT ![n] = dir]
<1>1. Default \in Config
  BY NoneAssumption DEF Default, Config, Map, Unmapped
<1>2. [Default EXCEPT !.ignore = "user"] \in Config
      /\ [Default EXCEPT !.ignore = "user"].map = Default.map
  BY <1>1 DEF Config
<1>3. \E c \in Config : file' = [c EXCEPT !.map[n] = dir] /\ c.map = Read.map
  BY <1>2, FileAssumption DEF HandMap, Read, TypeOK
<1>4. ASSUME NEW c \in Config
      PROVE  /\ [c EXCEPT !.map[n] = dir].map = [c.map EXCEPT ![n] = dir]
             /\ [c EXCEPT !.map[n] = dir] \in Config
  BY DEF Config, Map
<1>5. file' \in Config /\ file'.map = [Read.map EXCEPT ![n] = dir]
  BY <1>3, <1>4
<1>6. QED
  BY <1>5, FileAssumption DEF Read

(* Every step that moves a map about moves one that goes back to the wishes *)
(* of the user, and a new entry is a new wish.                              *)
LEMMA BackedKept ==
  ASSUME TypeOK, NamesDistinct, Renaming, MapsBacked, [Next]_vars
  PROVE  MapsBacked'
<1> USE NoneAssumption, NameAssumption, SpaceAssumption, DirAssumption
<1>t. work \in [Shell -> [step : {"idle", "login", "test", "update", "remap",
                                  "truncate", "write", "end"},
        cfg : Config, id : Space \cup {Own}, name : Name \cup {None},
        new : Name \cup {None}, fresh : BOOLEAN]]
  BY DEF TypeOK
<1>r. /\ Read \in Config /\ Loaded.map = Read.map /\ Default \in Config
      /\ Backed(Read.map) /\ Backed(Unmapped) /\ Apart(Unmapped)
      /\ Default.map = Unmapped
  BY DEF TypeOK, Read, Loaded, Default, Config, Map, Unmapped, MapsBacked,
     Backed, Apart, Mapped
<1>g. ASSUME NEW map, Backed(map) PROVE Backed(map)'
  BY <1>g, HistoryGrows, BackedStays
(* The steps that concern one command, the file or the daemon only.         *)
<1>f. ASSUME file' = file PROVE Backed(Read.map)'
  <2>1. (Read.map)' = Read.map
    BY <1>f DEF Read
  <2>2. ASSUME NEW map, map = Read.map PROVE Backed(map)'
    BY <1>g, <1>r, <2>2
  <2>3. QED
    BY <2>1, <2>2 DEF Backed
<1>d. ASSUME daemon' = daemon PROVE Backed(daemon.map)' /\ Apart(daemon.map)'
  <2>1. ASSUME NEW map, map = daemon.map PROVE Backed(map)'
    BY <1>g, <2>1 DEF MapsBacked
  <2>2. QED
    BY <1>d, <2>1 DEF Backed, Apart, Mapped, MapsBacked
<1>w. ASSUME work' = work PROVE \A q \in Shell : Backed(work[q].cfg.map)'
  <2>1. ASSUME NEW q \in Shell, NEW map, map = work[q].cfg.map PROVE Backed(map)'
    BY <1>g, <2>1 DEF MapsBacked
  <2>2. QED
    BY <1>w, <2>1 DEF Backed
<1>p. ASSUME NEW p \in Shell, NEW map, work'[p].cfg.map = map,
             Backed(map)', \A q \in Shell \ {p} : work'[q] = work[q]
      PROVE  \A q \in Shell : Backed(work[q].cfg.map)'
  <2>1. ASSUME NEW q \in Shell, NEW other, other = work[q].cfg.map PROVE Backed(other)'
    BY <1>g, <2>1 DEF MapsBacked
  <2>2. QED
    BY <1>p, <2>1 DEF Backed
<1>c. ASSUME NEW p \in Shell, NEW map, work'[p].cfg.map = map,
             Backed(map)', \A q \in Shell \ {p} : work'[q] = work[q],
             UNCHANGED <<file, daemon>>
      PROVE  MapsBacked'
  BY <1>c, <1>f, <1>d, <1>p DEF MapsBacked
<1>e. ASSUME NEW p \in Shell, Ends(p)
      PROVE  \A q \in Shell : Backed(work[q].cfg.map)'
  <2>1. work'[p].cfg.map = Unmapped /\ \A q \in Shell \ {p} : work'[q] = work[q]
    BY <1>e, <1>t, <1>r DEF Ends, Idle
  <2>2. QED
    BY <1>g, <1>p, <1>r, <2>1
<1>s. ASSUME NEW p \in Shell, NEW cfg, Saves(p, cfg), Backed(cfg.map)
      PROVE  \A q \in Shell : Backed(work[q].cfg.map)'
  <2>1. work'[p].cfg = cfg /\ \A q \in Shell \ {p} : work'[q] = work[q]
    BY <1>s, <1>t DEF Saves
  <2>2. QED
    BY <1>g, <1>p, <1>s, <2>1
<1>k. ASSUME NEW p \in Shell, work'[p].cfg = work[p].cfg,
             \A q \in Shell \ {p} : work'[q] = work[q]
      PROVE  \A q \in Shell : Backed(work[q].cfg.map)'
  <2>1. ASSUME NEW map, map = work[p].cfg.map PROVE Backed(map)'
    BY <1>g, <2>1 DEF MapsBacked
  <2>2. QED
    BY <1>k, <1>p, <2>1
<1>1. ASSUME NEW p \in Shell, NEW force \in BOOLEAN, NEW terminal \in BOOLEAN,
             NEW auth \in Auth, StartLogin(p, force, auth, terminal)
      PROVE  MapsBacked'
  <2>1. work'[p].cfg = work[p].cfg /\ \A q \in Shell \ {p} : work'[q] = work[q]
    BY <1>1, <1>t DEF StartLogin
  <2>2. QED
    BY <1>1, <1>d, <1>f, <1>k, <2>1 DEF StartLogin, MapsBacked
<1>2. ASSUME NEW p \in Shell, NEW dir \in Dir, LoginLoads(p, dir) PROVE MapsBacked'
  <2> DEFINE signed == [Read EXCEPT !.token = login[p].token]
             seeded == [signed EXCEPT !.map[Personal] = dir, !.ignore = "default"]
             map == work'[p].cfg.map
  <2>1. signed.map = Read.map
    BY <1>r DEF Config
  <2>2. seeded.map = [Read.map EXCEPT ![Personal] = dir]
    BY <1>r DEF Config
  <2>3. /\ work'[p].cfg = IF work[p].fresh THEN seeded ELSE signed
        /\ \A q \in Shell \ {p} : work'[q] = work[q]
    BY <1>2, <1>t DEF LoginLoads
  <2> HIDE DEF signed, seeded
  <2>4. CASE ~work[p].fresh
    <3>1. map = Read.map
      BY <2>1, <2>3, <2>4
    <3> HIDE DEF map
    <3>2. ASSUME NEW m, m = Read.map PROVE Backed(m)'
      BY <1>g, <1>r, <3>2
    <3>3. QED
      BY <1>2, <1>c, <2>3, <3>1, <3>2 DEF LoginLoads, map
  <2>5. CASE work[p].fresh
    <3>1. map = [Read.map EXCEPT ![Personal] = dir]
      BY <2>2, <2>3, <2>5
    <3>2. Wish(Personal, dir) \in meant'
      BY <1>2, <2>5 DEF LoginLoads
    <3>3. ASSUME NEW m, m = [Read.map EXCEPT ![Personal] = dir]
          PROVE  Backed(m)'
      <4>1. ASSUME NEW r, r = Read.map PROVE Backed(r)'
        BY <1>g, <1>r, <4>1
      <4>2. ASSUME NEW n \in Name, m[n] # None
            PROVE  \E w \in meant' : w.dir = m[n] /\ Related(n, w.name)'
        <5>1. CASE n = Personal
          <6>1. m[n] = dir
            BY <1>r, <3>3, <5>1 DEF Config, Map
          <6>2. Wish(Personal, dir).dir = dir /\ Wish(Personal, dir).name = n
            BY <5>1 DEF Wish
          <6>3. QED
            BY <3>2, <6>1, <6>2 DEF Related
        <5>2. CASE n # Personal
          <6>1. m[n] = Read.map[n]
            BY <1>r, <3>3, <5>2 DEF Config, Map
          <6>2. QED
            BY <4>1, <4>2, <6>1 DEF Backed
        <5>3. QED
          BY <5>1, <5>2
      <4>3. QED
        BY <4>2 DEF Backed
    <3>4. UNCHANGED <<file, daemon>>
      BY <1>2 DEF LoginLoads
    <3> HIDE DEF map
    <3>5. QED
      BY <1>c, <2>3, <3>1, <3>3, <3>4 DEF map
  <2>6. QED
    BY <2>4, <2>5
<1>3. ASSUME NEW p \in Shell, LoginFails(p) \/ TestConnection(p) PROVE MapsBacked'
  BY <1>3, <1>d, <1>e, <1>f, <1>s DEF LoginFails, TestConnection, MapsBacked
<1>4. ASSUME NEW p \in Shell, Logout(p) PROVE MapsBacked'
  <2>1. [Read EXCEPT !.token = None].map = Read.map
    BY <1>r DEF Config
  <2>2. QED
    BY <1>4, <1>d, <1>e, <1>f, <1>r, <1>s, <2>1 DEF Logout, MapsBacked
<1>5. ASSUME NEW p \in Shell, NEW i \in Space, NEW byName \in BOOLEAN,
             NEW new \in Name \cup {None}, Resolves(p, i, byName, new)
      PROVE  MapsBacked'
  <2>1. work'[p].cfg = work[p].cfg /\ \A q \in Shell \ {p} : work'[q] = work[q]
    BY <1>5, <1>t DEF Resolves
  <2>2. QED
    BY <1>5, <1>d, <1>f, <1>k, <2>1 DEF Resolves, MapsBacked
<1>6. ASSUME NEW p \in Shell, NEW s, Does(p, s)
      PROVE  \A q \in Shell : Backed(work[q].cfg.map)'
  <2>1. work'[p].cfg = work[p].cfg /\ \A q \in Shell \ {p} : work'[q] = work[q]
    BY <1>6, <1>t DEF Does
  <2>2. QED
    BY <1>k, <2>1
<1>7. ASSUME NEW p \in Shell, NEW outcome, Update(p, outcome) PROVE MapsBacked'
  <2>1. Ends(p) \/ Does(p, "remap")
    BY <1>7 DEF Update
  <2>2. UNCHANGED <<file, daemon>>
    BY <1>7 DEF Update
  <2>3. QED
    BY <1>6, <1>d, <1>e, <1>f, <2>1, <2>2 DEF MapsBacked
<1>8. ASSUME NEW p \in Shell, Remap(p) PROVE MapsBacked'
  <2> DEFINE i == work[p].id old == work[p].name new == work[p].new
             moved == [Read EXCEPT !.map = Moved(@, old, new)]
  <2>1. i \in Space /\ old \in bore[i] /\ new \in bore[i] \cup {None}
    BY <1>8, <1>t DEF Remap, Renaming
  <2>2. moved.map = Moved(Read.map, old, new) /\ Read.map \in Map
    BY <1>r DEF Config
  <2>3. Backed(moved.map)
    BY <1>r, <2>1, <2>2, MovedBacked
  <2>4. Ends(p) \/ Saves(p, moved)
    BY <1>8 DEF Remap
  <2>5. UNCHANGED <<file, daemon>>
    BY <1>8 DEF Remap
  <2>6. QED
    BY <1>d, <1>e, <1>f, <1>s, <2>3, <2>4, <2>5 DEF MapsBacked
<1>9. ASSUME NEW p \in Shell, Truncate(p) PROVE MapsBacked'
  <2>1. (Read.map)' = Unmapped
    BY <1>9, <1>r DEF Truncate, Read
  <2>2. Backed(Read.map)'
    BY <1>g, <1>r, <2>1 DEF Backed
  <2>3. QED
    BY <1>6, <1>9, <1>d, <2>2 DEF Truncate, MapsBacked
<1>10. ASSUME NEW p \in Shell, Write(p) PROVE MapsBacked'
  <2>1. (Read.map)' \in {work[p].cfg.map, Unmapped}
    BY <1>10, <1>r DEF Write, Read
  <2>2. ASSUME NEW map \in {work[p].cfg.map, Unmapped} PROVE Backed(map)'
    BY <1>g, <1>r, <2>2 DEF MapsBacked
  <2>3. Backed(Read.map)'
    BY <2>1, <2>2 DEF Backed
  <2>4. QED
    BY <1>10, <1>d, <1>e, <2>3 DEF Write, MapsBacked
<1>11. ASSUME NEW p \in Shell, Crash(p) PROVE MapsBacked'
  BY <1>11, <1>d, <1>e, <1>f DEF Crash, MapsBacked
<1>12. ASSUME NEW n \in Name, NEW dir \in Dir, HandMap(n, dir) PROVE MapsBacked'
  <2>1. /\ Wish(n, dir) \in meant'
        /\ UNCHANGED <<work, daemon>>
    BY <1>12 DEF HandMap
  <2>2. (Read.map)' = [Read.map EXCEPT ![n] = dir]
    BY <1>12, MappedByHand
  <2>3. ASSUME NEW m, m = [Read.map EXCEPT ![n] = dir] PROVE Backed(m)'
    <3>1. ASSUME NEW r, r = Read.map PROVE Backed(r)'
      BY <1>g, <1>r, <3>1
    <3>2. ASSUME NEW k \in Name, m[k] # None
          PROVE  \E w \in meant' : w.dir = m[k] /\ Related(k, w.name)'
      <4>1. CASE k = n
        <5>1. m[k] = dir
          BY <1>r, <2>3, <4>1 DEF Config, Map
        <5>2. Wish(n, dir).dir = dir /\ Wish(n, dir).name = k
          BY <4>1 DEF Wish
        <5>3. QED
          BY <2>1, <5>1, <5>2 DEF Related
      <4>2. CASE k # n
        <5>1. m[k] = Read.map[k]
          BY <1>r, <2>3, <4>2 DEF Config, Map
        <5>2. QED
          BY <3>1, <3>2, <5>1 DEF Backed
      <4>3. QED
        BY <4>1, <4>2
    <3>3. QED
      BY <3>2 DEF Backed
  <2>4. Backed(Read.map)'
    BY <2>2, <2>3 DEF Backed
  <2>5. QED
    BY <1>d, <1>w, <2>1, <2>4 DEF MapsBacked
<1>13. CASE UNCHANGED <<file, work, daemon>>
  BY <1>13, <1>d, <1>f, <1>w DEF MapsBacked
<1>14. CASE DaemonLoads \/ DaemonResolves \/ DaemonStops
  <2>1. UNCHANGED <<file, work>>
    BY <1>14 DEF DaemonLoads, DaemonResolves, DaemonStops
  <2>2. \/ daemon'.map = Read.map /\ Apart(Read.map)
        \/ daemon'.map = Unmapped
        \/ daemon'.map = daemon.map
    <3>1. daemon \in [step : {"stopped", "resolving", "running"}, map : Map,
                     engines : SUBSET ((Space \cup {Own}) \X Dir)]
      BY DEF TypeOK
    <3>2. CASE DaemonLoads
      BY <3>1, <3>2, <1>r DEF DaemonLoads
    <3>3. CASE DaemonResolves
      BY <3>1, <3>3 DEF DaemonResolves, Stopped
    <3>4. CASE DaemonStops
      BY <3>4 DEF DaemonStops, Stopped
    <3>5. QED
      BY <1>14, <3>2, <3>3, <3>4
  <2>3. \E m : daemon'.map = m /\ Backed(m) /\ Apart(m)
    BY <1>r, <2>2 DEF MapsBacked
  <2>4. Backed(daemon.map)' /\ Apart(daemon.map)'
    BY <1>g, <2>3 DEF Backed, Apart, Mapped
  <2>5. QED
    BY <1>f, <1>w, <2>1, <2>4 DEF MapsBacked
<1>15. QED
  BY <1>1, <1>2, <1>3, <1>4, <1>5, <1>7, <1>8, <1>9, <1>10, <1>11, <1>12,
     <1>13, <1>14
     DEF Next, Commands, Others, StartRm, StartRename, CreateSpace,
         RenamedElsewhere, vars, own
(* The engines are made of a map that goes back to wishes, of names that    *)
(* each belong to one space, and of directories apart.                      *)
LEMMA EnginesKept ==
  ASSUME TypeOK, NamesDistinct, MapsBacked, EnginesKeepToTheirs, [Next]_vars
  PROVE  EnginesKeepToTheirs'
<1> USE SpaceAssumption, NameAssumption
<1>1. CASE daemon' \in {daemon, Stopped, [daemon EXCEPT !.step = "resolving",
                                                       !.map = Loaded.map]}
  <2>1. daemon'.engines \in {daemon.engines, {}}
    <3>1. daemon \in [step : {"stopped", "resolving", "running"}, map : Map,
                     engines : SUBSET ((Space \cup {Own}) \X Dir)]
      BY DEF TypeOK
    <3>2. [daemon EXCEPT !.step = "resolving", !.map = Loaded.map].engines
            = daemon.engines
      BY <3>1
    <3>3. Stopped.engines = {}
      BY DEF Stopped
    <3>4. QED
      BY <1>1, <3>2, <3>3
  <2>2. meant \subseteq meant' /\ \A e \in daemon.engines : bore[e[1]] \subseteq bore'[e[1]]
    BY HistoryGrows DEF TypeOK
  <2>3. QED
    BY <2>1, <2>2 DEF EnginesKeepToTheirs
<1>2. CASE DaemonResolves
  <2> DEFINE known == UNION {SpaceFor(n) \X {daemon.map[n]} : n \in Mapped(daemon.map)}
  <2>1. daemon' = Stopped \/ daemon'.engines = known
    BY <1>2 DEF DaemonResolves, TypeOK
  <2>2. UNCHANGED <<meant, bore>>
    BY <1>2 DEF DaemonResolves
  <2>3. ASSUME NEW e \in known
        PROVE  \E n \in Mapped(daemon.map) :
                 e[1] \in SpaceFor(n) /\ e[2] = daemon.map[n]
    OBVIOUS
  <2>4. ASSUME NEW n \in Name, NEW i \in SpaceFor(n)
        PROVE  i \in Space \cup {Own} /\ n \in bore[i]
    BY <2>4 DEF SpaceFor, Live, NamesDistinct
  <2>5. ASSUME NEW n \in Name, NEW i \in SpaceFor(n), NEW j \in SpaceFor(n)
        PROVE  i = j
    <3>1. i \in Space \cup {Own} /\ j \in Space \cup {Own}
      BY <2>4
    <3>2. n \in bore[i] \cap bore[j]
      BY <2>4
    <3>3. QED
      BY <3>1, <3>2 DEF NamesDistinct
  <2>6. ASSUME NEW e \in known
        PROVE  \E w \in meant : w.name \in bore[e[1]] /\ w.dir = e[2]
    <3>1. PICK n \in Mapped(daemon.map) :
                 e[1] \in SpaceFor(n) /\ e[2] = daemon.map[n]
      BY <2>3
    <3>2. e[1] \in Space \cup {Own} /\ n \in bore[e[1]]
      BY <2>4, <3>1 DEF Mapped
    <3>3. PICK w \in meant : w.dir = daemon.map[n] /\ Related(n, w.name)
      BY <3>1 DEF MapsBacked, Backed, Mapped
    <3>4. w.name \in bore[e[1]]
      BY <3>2, <3>3 DEF Related, NamesDistinct
    <3>5. QED
      BY <3>1, <3>3, <3>4
  <2>7. ASSUME NEW e \in known, NEW f \in known, e[2] = f[2] PROVE e = f
    <3>1. PICK n \in Mapped(daemon.map) :
                 e[1] \in SpaceFor(n) /\ e[2] = daemon.map[n]
      BY <2>3
    <3>2. PICK m \in Mapped(daemon.map) :
                 f[1] \in SpaceFor(m) /\ f[2] = daemon.map[m]
      BY <2>3
    <3>3. m = n
      BY <2>7, <3>1, <3>2 DEF MapsBacked, Apart
    <3>4. e[1] = f[1]
      BY <2>5, <3>1, <3>2, <3>3 DEF Mapped
    <3>5. e = <<e[1], e[2]>> /\ f = <<f[1], f[2]>>
      OBVIOUS
    <3>6. QED
      BY <2>7, <3>4, <3>5
  <2> HIDE DEF known
  <2>8. CASE daemon' = Stopped
    BY <2>8 DEF Stopped, EnginesKeepToTheirs
  <2>9. CASE daemon'.engines = known
    BY <2>2, <2>6, <2>7, <2>9 DEF EnginesKeepToTheirs
  <2>10. QED
    BY <2>1, <2>8, <2>9
<1>3. CASE DaemonLoads \/ DaemonStops
  BY <1>1, <1>3 DEF DaemonLoads, DaemonStops
<1>4. CASE Commands
  <2>1. ASSUME NEW p \in Shell, NEW outcome, Update(p, outcome)
        PROVE  daemon' = daemon
    BY <2>1 DEF Update
  <2>2. ASSUME NEW p \in Shell, NEW i \in Space, NEW byName \in BOOLEAN,
               NEW new \in Name \cup {None}, Resolves(p, i, byName, new)
        PROVE  daemon' = daemon
    BY <2>2 DEF Resolves
  <2>3. ASSUME NEW p \in Shell, NEW force \in BOOLEAN, NEW terminal \in BOOLEAN,
               NEW auth \in Auth, StartLogin(p, force, auth, terminal)
        PROVE  daemon' = daemon
    BY <2>3 DEF StartLogin
  <2>4. ASSUME NEW p \in Shell, NEW dir \in Dir, LoginLoads(p, dir)
        PROVE  daemon' = daemon
    BY <2>4 DEF LoginLoads
  <2>5. ASSUME NEW p \in Shell,
               LoginFails(p) \/ TestConnection(p) \/ Logout(p) \/ Remap(p)
                 \/ Truncate(p) \/ Write(p) \/ Crash(p)
        PROVE  daemon' = daemon
    BY <2>5
       DEF LoginFails, TestConnection, Logout, Remap, Truncate, Write, Crash
  <2>6. daemon' = daemon
    BY <1>4, <2>1, <2>2, <2>3, <2>4, <2>5 DEF Commands, StartRm, StartRename
  <2>7. QED
    BY <1>1, <2>6
<1>5. CASE Others
  BY <1>1, <1>5 DEF Others, HandMap, CreateSpace, RenamedElsewhere
<1>6. CASE UNCHANGED own
  BY <1>1, <1>6 DEF own
<1>7. QED
  BY <1>2, <1>3, <1>4, <1>5, <1>6 DEF Next, own, vars

(* So does the part about the mappings.                                     *)
LEMMA MapsInvariance == Spec => []MapsInv
<1>1. Init => MapsInv
  BY SpaceAssumption
     DEF Init, MapsInv, NamesDistinct, Renaming, MapsBacked, Backed, Read, Apart,
         Mapped, Default, Unmapped, Idle, Stopped, EnginesKeepToTheirs, Own
<1>2. TypeOK /\ MapsInv /\ [Next]_vars => MapsInv'
  BY NamesKept, BackedKept, EnginesKept DEF MapsInv
<1>3. QED
  BY <1>1, <1>2, TypeCorrect, PTL DEF Spec

(* The daemon puts a space only into a directory the user gave to a name of *)
(* that space, and no two spaces into one, whatever was renamed, removed or *)
(* mapped while it loaded the map and asked for the spaces.                 *)
THEOREM EnginesKeep == Spec => []EnginesKeepToTheirs
  BY MapsInvariance, PTL DEF MapsInv
-----------------------------------------------------------------------------
(* The map follows the names of the spaces.                                 *)

(* A wish for a name has in mind the space of that name, which has it.      *)
LEMMA WishesKept ==
  ASSUME TypeOK, NamesDistinct, WishesKnown, [Next]_vars
  PROVE  WishesKnown'
<1>1. ASSUME NEW n \in Name, NEW dir \in Dir
      PROVE  \A i \in Wish(n, dir).for : bore[i] # {} /\ i \in Space
  BY NameAssumption DEF Wish, NamesDistinct
<1>2. \A w \in meant : w.for \subseteq Space
  BY DEF TypeOK
<1>3. ASSUME meant' \subseteq meant \cup {Wish(n, dir) : n \in Name, dir \in Dir}
      PROVE  WishesKnown'
  BY <1>1, <1>2, <1>3, HistoryGrows DEF WishesKnown
<1>4. CASE meant' = meant
  BY <1>3, <1>4
<1>5. CASE Commands
  <2>1. ASSUME NEW p \in Shell, NEW dir \in Dir, LoginLoads(p, dir)
        PROVE  WishesKnown'
    BY <1>3, <2>1, NameAssumption DEF LoginLoads
  <2>2. ASSUME NEW p \in Shell, NEW outcome, Update(p, outcome)
        PROVE  meant' = meant
    BY <2>2 DEF Update
  <2>3. ASSUME NEW p \in Shell, NEW i \in Space, NEW byName \in BOOLEAN,
               NEW new \in Name \cup {None}, Resolves(p, i, byName, new)
        PROVE  meant' = meant
    BY <2>3 DEF Resolves
  <2>4. ASSUME NEW p \in Shell, NEW force \in BOOLEAN, NEW terminal \in BOOLEAN,
               NEW auth \in Auth, StartLogin(p, force, auth, terminal)
        PROVE  meant' = meant
    BY <2>4 DEF StartLogin
  <2>5. ASSUME NEW p \in Shell,
               LoginFails(p) \/ TestConnection(p) \/ Logout(p) \/ Remap(p)
                 \/ Truncate(p) \/ Write(p) \/ Crash(p)
        PROVE  meant' = meant
    BY <2>5
       DEF LoginFails, TestConnection, Logout, Remap, Truncate, Write, Crash
  <2>6. QED
    BY <1>4, <1>5, <2>1, <2>2, <2>3, <2>4, <2>5
       DEF Commands, StartRm, StartRename
<1>6. CASE Others
  BY <1>3, <1>4, <1>6 DEF Others, HandMap, CreateSpace, RenamedElsewhere
<1>7. QED
  BY <1>4, <1>5, <1>6
     DEF Next, own, vars, DaemonLoads, DaemonResolves, DaemonStops

(* A directory is one the user named.                                       *)
LEMMA DirsAreDirs ==
  ASSUME TypeOK, NEW i PROVE Dirs(i) \subseteq Dir /\ None \notin Dirs(i)
BY DirAssumption DEF TypeOK, Dirs

(* Commands that run alone: from what a step knows of the file to what the  *)
(* next one knows.                                                          *)
LEMMA CommandsStayCalm ==
  ASSUME TypeOK, NamesDistinct, Renaming, budget.calm, Calm, Commands
  PROVE  Calm'
<1> USE NoneAssumption, NameAssumption, SpaceAssumption
<1>t. work \in [Shell -> [step : {"idle", "login", "test", "update", "remap",
                                  "truncate", "write", "end"},
        cfg : Config, id : Space \cup {Own}, name : Name \cup {None},
        new : Name \cup {None}, fresh : BOOLEAN]]
  BY DEF TypeOK
<1>r. Read \in Config
  BY DEF TypeOK, Read, Default, Config, Map, Unmapped
<1>n. ASSUME NEW i \in Live
      PROVE  /\ i \in Space /\ space[i] \in Name /\ space[i] \in bore[i]
             /\ \A j \in Space \cup {Own} : space[i] \in bore[j] => j = i
  BY DEF Live, NamesDistinct, TypeOK
<1>q. ASSUME NEW p \in Shell, Busy(p) \/ Quiet
      PROVE  \A q \in Shell \ {p} : ~Busy(q)
  BY <1>q DEF Calm, OneAtATime, Quiet, Busy
<1>a. ASSUME NEW p \in Shell, Busy(p) \/ Quiet,
             \A q \in Shell \ {p} : work'[q] = work[q],
             Knows(p)', work'[p].step \in {"idle", "end"} => FileFollows'
      PROVE  Calm'
  <2>1. \A q \in Shell \ {p} : work'[q].step \in {"idle", "end"}
    BY <1>a, <1>q DEF Busy
  <2>2. OneAtATime' /\ (Quiet => FileFollows)'
    BY <1>a, <2>1 DEF OneAtATime, Busy, Quiet
  <2>3. \A q \in Shell \ {p} : Knows(q)'
    BY <2>1 DEF Knows
  <2>4. QED
    BY <1>a, <2>2, <2>3 DEF Calm
<1>u. ASSUME UNCHANGED <<space, meant>>
      PROVE  Live' = Live /\ \A i : Dirs(i)' = Dirs(i)
  BY <1>u DEF Live, Dirs
<1>f. ASSUME UNCHANGED <<file, space, meant>>, FileFollows PROVE FileFollows'
  BY <1>f, <1>u DEF FileFollows, Follows, Read
<1>e. ASSUME NEW p \in Shell, Ends(p), UNCHANGED <<file, space, meant>>,
             Busy(p) \/ Quiet, FileFollows
      PROVE  Calm'
  <2>1. work'[p].step = "end" /\ \A q \in Shell \ {p} : work'[q] = work[q]
    BY <1>e, <1>t DEF Ends, Idle
  <2>2. Knows(p)'
    BY <2>1 DEF Knows
  <2>3. QED
    BY <1>a, <1>e, <1>f, <2>1, <2>2
<1>s. ASSUME NEW p \in Shell, NEW cfg, Saves(p, cfg), UNCHANGED <<space, meant>>,
             Busy(p) \/ Quiet,
             \A i \in Live : Follows(cfg.map, i, space[i])
      PROVE  Calm'
  <2>1. /\ work'[p].step = "truncate" /\ work'[p].cfg = cfg
        /\ \A q \in Shell \ {p} : work'[q] = work[q]
    BY <1>s, <1>t DEF Saves
  <2>2. Knows(p)'
    BY <1>s, <1>u, <2>1 DEF Knows, Follows
  <2>3. QED
    BY <1>a, <1>s, <2>1, <2>2
<1>1. ASSUME NEW p \in Shell, NEW force \in BOOLEAN, NEW terminal \in BOOLEAN,
             NEW auth \in Auth, StartLogin(p, force, auth, terminal)
      PROVE  Calm'
  <2>1. Quiet /\ FileFollows /\ UNCHANGED <<file, space, meant>>
    BY <1>1 DEF StartLogin, MayBegin, Calm
  <2>2. work'[p].step = "login" /\ \A q \in Shell \ {p} : work'[q] = work[q]
    BY <1>1, <1>t DEF StartLogin
  <2>3. Knows(p)'
    BY <1>f, <2>1, <2>2 DEF Knows
  <2>4. QED
    BY <1>a, <2>1, <2>2, <2>3
<1>2. ASSUME NEW p \in Shell, NEW dir \in Dir, LoginLoads(p, dir) PROVE Calm'
  <2> DEFINE signed == [Read EXCEPT !.token = login[p].token]
             seeded == [signed EXCEPT !.map[Personal] = dir, !.ignore = "default"]
  <2>1. FileFollows /\ Busy(p) /\ UNCHANGED <<file, space>>
    BY <1>2 DEF LoginLoads, Calm, Knows, Busy
  <2>2. \A i \in Live : space[i] # Personal
    BY <1>n DEF NamesDistinct, Own
  <2>3. Live' = Live /\ \A i \in Live : Dirs(i)' = Dirs(i)
    <3>1. \A i \in Live : i \notin Wish(Personal, dir).for
      BY <2>2 DEF Wish
    <3>2. meant' \in {meant, meant \cup {Wish(Personal, dir)}}
      BY <1>2 DEF LoginLoads
    <3>3. QED
      BY <2>1, <3>1, <3>2 DEF Live, Dirs
  <2>4. FileFollows'
    BY <2>1, <2>3 DEF FileFollows, Follows, Read
  <2>5. signed.map = Read.map
        /\ seeded.map = [Read.map EXCEPT ![Personal] = dir]
    BY <1>r DEF Config
  <2>6. /\ work'[p].step = "test" /\ work'[p].cfg \in {signed, seeded}
        /\ \A q \in Shell \ {p} : work'[q] = work[q]
    BY <1>2, <1>t DEF LoginLoads
  <2> HIDE DEF signed, seeded
  <2>7. \A i \in Live : work'[p].cfg.map[space[i]] = Read.map[space[i]]
    BY <1>n, <1>r, <2>2, <2>5, <2>6 DEF Config, Map
  <2>8. \A i \in Live' : Follows(work[p].cfg.map, i, space[i])'
    BY <2>1, <2>3, <2>7 DEF FileFollows, Follows
  <2>9. Knows(p)'
    BY <2>4, <2>6, <2>8 DEF Knows
  <2>10. QED
    BY <1>a, <2>1, <2>6, <2>9
<1>3. ASSUME NEW p \in Shell, LoginFails(p) PROVE Calm'
  <2>1. FileFollows /\ Busy(p)
    BY <1>3 DEF LoginFails, Calm, Knows, Busy
  <2>2. QED
    BY <1>3, <1>e, <2>1 DEF LoginFails
<1>4. ASSUME NEW p \in Shell, TestConnection(p) PROVE Calm'
  <2>1. Busy(p) /\ \A i \in Live : Follows(work[p].cfg.map, i, space[i])
    BY <1>4 DEF TestConnection, Calm, Knows, Busy
  <2>2. QED
    BY <1>4, <1>s, <2>1 DEF TestConnection
<1>5. ASSUME NEW p \in Shell, Logout(p) PROVE Calm'
  <2>1. Quiet /\ FileFollows /\ UNCHANGED <<file, space, meant>>
    BY <1>5 DEF Logout, MayBegin, Calm
  <2>2. [Read EXCEPT !.token = None].map = Read.map
    BY <1>r DEF Config
  <2>3. QED
    BY <1>5, <1>e, <1>s, <2>1, <2>2 DEF Logout, FileFollows
<1>6. ASSUME NEW p \in Shell, NEW i \in Space, NEW byName \in BOOLEAN,
             NEW new \in Name \cup {None}, Resolves(p, i, byName, new)
      PROVE  Calm'
  <2>1. Quiet /\ FileFollows /\ UNCHANGED <<file, space, meant>>
    BY <1>6 DEF Resolves, MayBegin, Calm
  <2>2. /\ work'[p].step = "update" /\ work'[p].id = i /\ work'[p].name = space[i]
        /\ \A q \in Shell \ {p} : work'[q] = work[q]
    BY <1>6, <1>t DEF Resolves, Resolve
  <2>3. Knows(p)'
    BY <1>f, <2>1, <2>2 DEF Knows
  <2>4. QED
    BY <1>a, <2>1, <2>2, <2>3
<1>7. ASSUME NEW p \in Shell, NEW outcome \in {"done", "refused", "lost"},
             Update(p, outcome)
      PROVE  Calm'
  <2> DEFINE id == work[p].id
  <2>1. /\ FileFollows /\ Busy(p) /\ space[id] = work[p].name /\ id \in Space
        /\ UNCHANGED <<file, meant>>
    BY <1>7 DEF Update, Calm, Knows, Busy, Renaming
  <2>2. CASE outcome = "refused"
    BY <1>7, <1>e, <2>1, <2>2 DEF Update
  <2>3. CASE outcome = "done"
    <3>1. /\ id \in Live /\ Does(p, "remap")
          /\ space' = [space EXCEPT ![id] = work[p].new]
      BY <1>7, <2>3 DEF Update, SpaceIs
    <3>2. /\ work'[p].step = "remap" /\ work'[p].id = id
          /\ work'[p].name = work[p].name /\ work'[p].new = work[p].new
          /\ \A q \in Shell \ {p} : work'[q] = work[q]
      BY <1>t, <3>1 DEF Does
    <3>3. /\ space'[id] = work[p].new /\ Live' \subseteq Live
          /\ \A i \in Space \ {id} : space'[i] = space[i]
      BY <2>1, <3>1 DEF Live, TypeOK
    <3>4. \A i : Dirs(i)' = Dirs(i)
      BY <2>1 DEF Dirs
    <3>5. \A i \in Live' : Follows(Read.map, i,
            IF i = work[p].id THEN work[p].name ELSE space[i])'
      <4> SUFFICES ASSUME NEW i \in Live'
                   PROVE  Follows(Read.map, i,
                            IF i = work[p].id THEN work[p].name ELSE space[i])'
        OBVIOUS
      <4>1. i \in Live /\ Follows(Read.map, i, space[i])
        BY <2>1, <3>3 DEF FileFollows
      <4>2. (IF i = work[p].id THEN work[p].name ELSE space[i])' = space[i]
        BY <2>1, <3>2, <3>3, <4>1 DEF Live
      <4>3. (Read.map)' = Read.map
        BY <2>1 DEF Read
      <4>4. QED
        BY <3>4, <4>1, <4>2, <4>3 DEF Follows
    <3>6. Knows(p)'
      BY <3>2, <3>3, <3>5 DEF Knows
    <3>7. QED
      BY <1>a, <2>1, <3>2, <3>6
  <2>4. CASE outcome = "lost"
    BY <1>7, <2>4 DEF Update
  <2>5. QED
    BY <2>2, <2>3, <2>4
<1>8. ASSUME NEW p \in Shell, Remap(p) PROVE Calm'
  <2> DEFINE id == work[p].id old == work[p].name new == work[p].new
             moved == [Read EXCEPT !.map = Moved(@, old, new)]
  <2>1. /\ Busy(p) /\ id \in Space /\ old \in bore[id] /\ old \in Name
        /\ new # None => new \in bore[id]
        /\ space[id] = new
        /\ UNCHANGED <<file, space, meant>>
    BY <1>8 DEF Remap, Calm, Knows, Busy, Renaming, TypeOK
  <2>2. \A i \in Live : Follows(Read.map, i, IF i = id THEN old ELSE space[i])
    BY <1>8 DEF Remap, Calm, Knows
  <2>3. CASE Read.map[old] = None
    <3>1. Ends(p)
      BY <1>8, <2>3 DEF Remap
    <3>2. id \in Live => Dirs(id) = {}
      BY <2>2, <2>3, DirsAreDirs DEF Follows
    <3>3. FileFollows
      BY <2>2, <3>2 DEF FileFollows, Follows
    <3>4. QED
      BY <1>e, <2>1, <3>1, <3>3
  <2>4. CASE Read.map[old] # None
    <3>1. Saves(p, moved)
      BY <1>8, <2>1, <2>4 DEF Remap
    <3>2. moved.map = Moved(Read.map, old, new)
      BY <1>r DEF Config
    <3>3. ASSUME NEW i \in Live
          PROVE  moved.map[space[i]] = Read.map[IF i = id THEN old ELSE space[i]]
      <4>1. CASE i = id
        BY <1>n, <2>1, <3>2, <4>1 DEF Moved
      <4>2. CASE i # id
        <5>1. /\ space[i] \in Name /\ space[i] # None
              /\ \A j \in Space \cup {Own} : space[i] \in bore[j] => j = i
          BY <1>n, NameAssumption
        <5>2. space[i] \notin bore[id]
          BY <2>1, <4>2, <5>1
        <5>3. space[i] # old
          BY <2>1, <5>2
        <5>4. space[i] # new
          BY <2>1, <5>1, <5>2
        <5>5. QED
          BY <3>2, <4>2, <5>1, <5>3, <5>4 DEF Moved
      <4>3. QED
        BY <4>1, <4>2
    <3> HIDE DEF moved
    <3>4. \A i \in Live : Follows(moved.map, i, space[i])
      BY <2>2, <3>3 DEF Follows
    <3>5. QED
      BY <1>s, <2>1, <3>1, <3>4
  <2>5. QED
    BY <2>3, <2>4
<1>9. ASSUME NEW p \in Shell, Truncate(p) PROVE Calm'
  <2>1. /\ work'[p].step = "write" /\ work'[p].cfg = work[p].cfg
        /\ \A q \in Shell \ {p} : work'[q] = work[q]
    BY <1>9, <1>t DEF Truncate, Does
  <2>2. /\ Busy(p) /\ UNCHANGED <<space, meant>>
        /\ \A i \in Live : Follows(work[p].cfg.map, i, space[i])
    BY <1>9 DEF Truncate, Calm, Knows, Busy
  <2>3. Knows(p)'
    BY <1>u, <2>1, <2>2 DEF Knows, Follows
  <2>4. QED
    BY <1>a, <2>1, <2>2, <2>3
<1>10. ASSUME NEW p \in Shell, Write(p) PROVE Calm'
  <2>1. /\ work'[p].step = "end" /\ \A q \in Shell \ {p} : work'[q] = work[q]
    BY <1>10, <1>t DEF Write, Ends, Idle
  <2>2. /\ Busy(p) /\ UNCHANGED <<space, meant>>
        /\ \A i \in Live : Follows(work[p].cfg.map, i, space[i])
    BY <1>10 DEF Write, Calm, Knows, Busy
  <2>3. Read' = work[p].cfg
    BY <1>10, <1>t, FileAssumption DEF Write, Read
  <2>4. FileFollows'
    BY <1>u, <2>2, <2>3 DEF FileFollows, Follows
  <2>5. Knows(p)'
    BY <2>1 DEF Knows
  <2>6. QED
    BY <1>a, <2>1, <2>2, <2>4, <2>5
<1>11. QED
  BY <1>1, <1>2, <1>3, <1>4, <1>5, <1>6, <1>7, <1>8, <1>9, <1>10
     DEF Commands, StartRm, StartRename, Crash

(* The user's editor, and a space created while a command runs.             *)
LEMMA OthersStayCalm ==
  ASSUME TypeOK, NamesDistinct, Renaming, WishesKnown, budget.calm, Calm, Others
  PROVE  Calm'
<1> USE NoneAssumption, NameAssumption, SpaceAssumption
<1>1. ASSUME NEW n \in Name, NEW dir \in Dir, HandMap(n, dir) PROVE Calm'
  <2>1. /\ Quiet /\ FileFollows /\ UNCHANGED <<work, space>>
        /\ meant' = meant \cup {Wish(n, dir)}
    BY <1>1 DEF HandMap, Calm
  <2>2. (Read.map)' = [Read.map EXCEPT ![n] = dir] /\ Read.map \in Map
    BY <1>1, MappedByHand
       DEF TypeOK, Read, Default, Config, Map, Unmapped
  <2>3. ASSUME NEW i \in Live PROVE Follows(Read.map, i, space[i])'
    <3>1. space[i] \in Name /\ i \in Space
      BY DEF Live, TypeOK
    <3>2. CASE space[i] = n
      <4>1. i \in Wish(n, dir).for /\ Wish(n, dir).dir = dir
        BY <3>1, <3>2 DEF Wish
      <4>2. dir \in Dirs(i)'
        BY <2>1, <4>1 DEF Dirs
      <4>3. (Read.map[space[i]])' = dir
        BY <2>1, <2>2, <3>2 DEF Map
      <4>4. QED
        BY <4>2, <4>3 DEF Follows
    <3>3. CASE space[i] # n
      <4>1. i \notin Wish(n, dir).for
        BY <3>3 DEF Wish
      <4>2. Dirs(i)' = Dirs(i)
        BY <2>1, <4>1 DEF Dirs
      <4>3. (Read.map[space[i]])' = Read.map[space[i]]
        BY <2>1, <2>2, <3>1, <3>3 DEF Map
      <4>4. QED
        BY <2>1, <4>2, <4>3 DEF FileFollows, Follows
    <3>4. QED
      BY <3>2, <3>3
  <2>4. FileFollows'
    BY <2>1, <2>3 DEF FileFollows, Live
  <2>5. \A p \in Shell : Knows(p)'
    BY <2>1 DEF Quiet, Knows
  <2>6. OneAtATime'
    BY <2>1 DEF Calm, OneAtATime, Busy
  <2>7. QED
    BY <2>4, <2>5, <2>6 DEF Calm
<1>2. ASSUME NEW i \in Space, NEW n \in Name, CreateSpace(i, n) PROVE Calm'
  <2>1. /\ bore[i] = {} /\ space' = [space EXCEPT ![i] = n]
        /\ UNCHANGED <<file, work, meant>>
    BY <1>2 DEF CreateSpace, SpaceIs
  <2>2. /\ Live' \subseteq Live \cup {i} /\ Live \subseteq Space
        /\ \A j \in Space \ {i} : space'[j] = space[j]
    BY <2>1 DEF Live, TypeOK
  <2>3. Dirs(i) = {} /\ \A j : Dirs(j)' = Dirs(j)
    BY <2>1 DEF Dirs, WishesKnown
  <2>4. (Read.map)' = Read.map
    BY <2>1 DEF Read
  <2>5. FileFollows => FileFollows'
    BY <2>2, <2>3, <2>4 DEF FileFollows, Follows
  <2>6. ASSUME NEW p \in Shell PROVE Knows(p)'
    <3>1. work'[p] = work[p] /\ Knows(p)
      BY <2>1 DEF Calm
    <3>2. work[p].step \in {"update", "remap"} => work[p].id \in Space \ {i}
      BY <2>1 DEF Renaming
    <3>3. work[p].step \in {"update", "remap"} =>
            space'[work[p].id] = space[work[p].id]
      BY <2>2, <3>2
    <3>4. work[p].step = "remap" =>
            \A j \in Live' : Follows(Read.map, j,
              IF j = work[p].id THEN work[p].name ELSE space[j])'
      <4> SUFFICES ASSUME work[p].step = "remap", NEW j \in Live', Dirs(j) # {}
                   PROVE  Read.map[IF j = work[p].id THEN work[p].name ELSE space'[j]]
                            \in Dirs(j)
        BY <2>1, <2>3, <2>4 DEF Follows
      <4>1. j \in Live /\ space'[j] = space[j]
        BY <2>2, <2>3
      <4>2. QED
        BY <3>1, <4>1 DEF Knows, Follows
    <3>5. work[p].step \in {"test", "truncate", "write"} =>
            \A j \in Live' : Follows(work[p].cfg.map, j, space[j])'
      <4> SUFFICES ASSUME work[p].step \in {"test", "truncate", "write"},
                          NEW j \in Live', Dirs(j) # {}
                   PROVE  work[p].cfg.map[space'[j]] \in Dirs(j)
        BY <2>1, <2>3 DEF Follows
      <4>1. j \in Live /\ space'[j] = space[j]
        BY <2>2, <2>3
      <4>2. QED
        BY <3>1, <4>1 DEF Knows, Follows
    <3>6. QED
      BY <2>5, <3>1, <3>3, <3>4, <3>5 DEF Knows
  <2>7. OneAtATime' /\ (Quiet => FileFollows)'
    BY <2>1, <2>5 DEF Calm, OneAtATime, Busy, Quiet
  <2>8. QED
    BY <2>6, <2>7 DEF Calm
<1>3. QED
  BY <1>1, <1>2 DEF Others, RenamedElsewhere

(* And the part about what the engines know of a rename.                    *)
LEMMA CalmInvariance == Spec => []CalmInv
<1>1. Init => CalmInv
  BY DEF Init, CalmInv, WishesKnown, Calm, OneAtATime, Busy, FileFollows, Knows,
     Live, Idle
<1>2. TypeOK /\ CodeIsOwn /\ MapsInv /\ CalmInv /\ [Next]_vars => CalmInv'
  <2> SUFFICES ASSUME TypeOK, CodeIsOwn, MapsInv, CalmInv, [Next]_vars
               PROVE  CalmInv'
    OBVIOUS
  <2>1. budget'.calm = budget.calm
    <3>1. budget \in Budget /\ LoginTypeOK
      BY DEF TypeOK, LoginTypeOK
    <3>2. CASE LoginStep
      BY <3>1, <3>2, LoginTypes
    <3>3. CASE Commands
      <4>1. ASSUME NEW p \in Shell, NEW force \in BOOLEAN, NEW terminal \in BOOLEAN,
                   NEW auth \in Auth, StartLogin(p, force, auth, terminal)
            PROVE  budget'.calm = budget.calm
        BY <3>1, <4>1, Spending DEF StartLogin, Begin
      <4>2. ASSUME NEW p \in Shell, NEW outcome, Update(p, outcome)
            PROVE  budget'.calm = budget.calm
        BY <3>1, <4>2, Spending DEF Update
      <4>3. ASSUME NEW p \in Shell, Crash(p) PROVE budget'.calm = budget.calm
        BY <3>1, <4>3, Spending DEF Crash
      <4>4. ASSUME NEW p \in Shell, NEW i \in Space, NEW byName \in BOOLEAN,
                   NEW new \in Name \cup {None}, Resolves(p, i, byName, new)
            PROVE  budget' = budget
        BY <4>4 DEF Resolves
      <4>5. ASSUME NEW p \in Shell, NEW dir \in Dir, LoginLoads(p, dir)
            PROVE  budget' = budget
        BY <4>5 DEF LoginLoads
      <4>6. ASSUME NEW p \in Shell,
                   LoginFails(p) \/ TestConnection(p) \/ Logout(p) \/ Remap(p)
                     \/ Truncate(p) \/ Write(p)
            PROVE  budget' = budget
        BY <4>6 DEF LoginFails, TestConnection, Logout, Remap, Truncate, Write
      <4>7. QED
        BY <3>3, <4>1, <4>2, <4>3, <4>4, <4>5, <4>6
           DEF Commands, StartRm, StartRename
    <3>4. CASE Others
      BY <3>1, <3>4, Spending DEF Others, HandMap, CreateSpace, RenamedElsewhere
    <3>5. CASE DaemonLoads \/ DaemonResolves \/ DaemonStops \/ UNCHANGED vars
      BY <3>1, <3>5, Spending DEF DaemonLoads, DaemonResolves, DaemonStops, vars
    <3>6. QED
      BY <3>2, <3>3, <3>4, <3>5 DEF Next
  <2>2. WishesKnown'
    BY WishesKept DEF CalmInv, MapsInv
  <2>3. CASE UNCHANGED <<file, work, space, meant>>
    BY <2>1, <2>2, <2>3
       DEF CalmInv, Calm, OneAtATime, Busy, Quiet, Knows, FileFollows, Follows,
           Dirs, Live, Read
  <2>4. CASE Commands
    BY <2>1, <2>2, <2>4, CommandsStayCalm DEF CalmInv, MapsInv
  <2>5. CASE Others
    BY <2>1, <2>2, <2>5, OthersStayCalm DEF CalmInv, MapsInv
  <2>6. QED
    BY <2>3, <2>4, <2>5
       DEF Next, vars, own, DaemonLoads, DaemonResolves, DaemonStops
<1>3. QED
  BY <1>1, <1>2, TypeCorrect, MapsInvariance, PTL DEF Spec

(* Between commands run one at a time, a space the user gave a directory is *)
(* mapped under the name the server has for it now, however often it was    *)
(* renamed.                                                                 *)
THEOREM MapFollows == Spec => []MappingFollowsRename
<1>1. CalmInv => MappingFollowsRename
  BY DEF CalmInv, Calm, FileFollows, Follows, Dirs, MappingFollowsRename
<1>2. QED
  BY <1>1, CalmInvariance, PTL
=============================================================================
