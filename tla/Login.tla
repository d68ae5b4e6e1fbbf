------------------------------- MODULE Login -------------------------------
(***************************************************************************)
(* How `nuage login` gets a token (login/): from the browser, over a        *)
(* loopback listener that serves one connection at a time, or pasted at a   *)
(* terminal.  Several shells may sign in at once; a port that one of them   *)
(* has given up may be handed to another while a browser still redirects    *)
(* to it.  The sign-in server is external: it issues one one-time code per  *)
(* flow, which expires.                                                     *)
(***************************************************************************)
EXTENDS Integers, FiniteSets

CONSTANTS
  Shell,      \* shells that run one command each
  None,
  Scenarios   \* bounds: what may happen, and how often

ASSUME NoneAssumption == None \notin Shell

Budget == [installed : BOOLEAN, sso : BOOLEAN, calm : BOOLEAN, logins : Nat,
           strays : Nat, lost : Nat, faults : Nat, spaces : Nat, hand : Nat,
           starts : Nat]
ASSUME ScenariosAssumption == Scenarios \subseteq Budget

VARIABLES
  login,    \* per shell: where its login stands, the connection it serves,
            \* whether it may fall back to pasting, and the token it got
  ticket,   \* per shell: the one-time code of the flow it started
  knock,    \* connections waiting to be accepted, and what they will send
  budget    \* what may still happen

flow == <<login, ticket, knock>>

NotBegun == [step |-> "none", conn |-> None, fallback |-> FALSE, token |-> None]

LoginInit ==
  /\ login = [l \in Shell |-> NotBegun]
  /\ ticket = [l \in Shell |-> "none"]
  /\ knock = {}
  /\ budget \in Scenarios

Spend(kind) == budget[kind] > 0 /\ budget' = [budget EXCEPT ![kind] = @ - 1]

Waiting(l) == login[l].step \in {"listen", "serve"}
Goes(l, s) == login' = [login EXCEPT ![l].step = s, ![l].conn = None]

(* sso() returns an error: a login at a terminal, on a server that takes    *)
(* more than single sign-on, asks for a token instead.                      *)
GivesUp(l) ==
  /\ Goes(l, IF login[l].fallback THEN "paste" ELSE "failed")
  /\ knock' = {k \in knock : k.to # l}

-----------------------------------------------------------------------------
(* acquire_token, for what the server says it accepts; one that does not    *)
(* answer is taken for an old one, which takes a pasted token only.         *)
Auth == [ssoOnly : BOOLEAN, oidc : BOOLEAN]
Begin(l, force, auth, terminal) ==
  /\ login[l] = NotBegun
  /\ Spend("logins") /\ (auth.oidc => budget.sso)
  /\ login' = [login EXCEPT ![l].fallback = ~auth.ssoOnly /\ terminal,
                 ![l].step = CASE ~force /\ auth.oidc -> "open"
                               [] ~force /\ ~auth.oidc /\ auth.ssoOnly -> "failed"
                               [] OTHER -> IF terminal THEN "paste" ELSE "failed"]
  /\ UNCHANGED <<ticket, knock>>

(* sso: a port of its own, a nonce, and the browser sent off with both.     *)
OpenBrowser(l) ==
  /\ login[l].step = "open"
  /\ \/ Goes(l, "listen") /\ ticket' = [ticket EXCEPT ![l] = "asked"] /\ UNCHANGED knock
     \/ GivesUp(l) /\ UNCHANGED ticket
  /\ UNCHANGED budget

(* The user has signed in: the browser is redirected to the port of the     *)
(* flow, whoever holds that port by then.                                   *)
SignIn(l, m) ==
  /\ ticket[l] = "asked"
  /\ ticket' = [ticket EXCEPT ![l] = "issued"]
  /\ IF Waiting(l) THEN m = l ELSE m # None => Waiting(m)
  /\ knock' = IF m = None THEN knock ELSE knock \cup {[to |-> m, sends |-> l]}
  /\ UNCHANGED <<login, budget>>

(* A browser asks for an icon, or opens a connection it does not use yet.   *)
Stray(l, what) ==
  /\ Waiting(l)
  /\ Spend("strays")
  /\ knock' = knock \cup {[to |-> l, sends |-> what]}
  /\ UNCHANGED <<login, ticket>>

ExpireCode(l) ==
  /\ ticket[l] = "issued"
  /\ ticket' = [ticket EXCEPT ![l] = "expired"]
  /\ UNCHANGED <<login, knock, budget>>

-----------------------------------------------------------------------------
(* wait_for_code.                                                           *)

Accept(l, k) ==
  /\ login[l].step = "listen"
  /\ k \in knock /\ k.to = l
  /\ knock' = knock \ {k}
  /\ login' = [login EXCEPT ![l].step = "serve", ![l].conn = k.sends]
  /\ UNCHANGED <<ticket, budget>>

(* The request has been read, and is answered: no code, the code of another *)
(* login, or the one this login waits for.                                  *)
ServeAnyCode(l) ==
  /\ login[l].step = "serve" /\ login[l].conn # "silent"
  /\ IF login[l].conn \in Shell
     THEN /\ login' = [login EXCEPT ![l].step = "exchange"]
          /\ knock' = {k \in knock : k.to # l}
     ELSE Goes(l, "listen") /\ UNCHANGED knock
  /\ UNCHANGED <<ticket, budget>>
Serve(l) ==
  /\ login[l].step = "serve" /\ login[l].conn # "silent"
  /\ IF login[l].conn = l
     THEN /\ login' = [login EXCEPT ![l].step = "exchange"]
          /\ knock' = {k \in knock : k.to # l}
     ELSE Goes(l, "listen") /\ UNCHANGED knock
  /\ UNCHANGED <<ticket, budget>>

(* The other side closes a connection it never used: an empty request, and  *)
(* so one without a code.                                                   *)
HangUp(l) ==
  /\ login[l].step = "serve" /\ login[l].conn = "silent"
  /\ Goes(l, "listen")
  /\ UNCHANGED <<ticket, knock, budget>>

(* A connection that breaks while it is read or answered ends the wait.     *)
BreakOff(l) ==
  /\ login[l].step = "serve"
  /\ Spend("strays")
  /\ GivesUp(l)
  /\ UNCHANGED <<ticket>>

(* The timeout is around the whole of wait_for_code.                        *)
TimeoutOfAccept(l) ==
  /\ login[l].step = "listen"
  /\ GivesUp(l)
  /\ UNCHANGED <<ticket, budget>>
Timeout(l) ==
  /\ Waiting(l)
  /\ GivesUp(l)
  /\ UNCHANGED <<ticket, budget>>

-----------------------------------------------------------------------------
(* The code is good once; the request or its answer may be lost.            *)
Exchange(l, outcome) ==
  LET code == login[l].conn IN
  /\ login[l].step = "exchange"
  /\ \/ /\ outcome = "done" /\ ticket[code] = "issued"
        /\ login' = [login EXCEPT ![l].step = "got", ![l].conn = None, ![l].token = code]
        /\ ticket' = [ticket EXCEPT ![code] = "spent"]
        /\ UNCHANGED <<knock, budget>>
     \/ /\ outcome = "lost" /\ ticket[code] = "issued"
        /\ ticket' \in {ticket, [ticket EXCEPT ![code] = "spent"]}
        /\ GivesUp(l) /\ Spend("lost")
     \/ /\ outcome = "refused" /\ ticket[code] # "issued"
        /\ GivesUp(l) /\ UNCHANGED <<ticket, budget>>

(* prompt_token: a token the user has minted, or nothing.                   *)
Paste(l) ==
  /\ login[l].step = "paste"
  /\ \/ login' = [login EXCEPT ![l].step = "got", ![l].token = l]
     \/ Goes(l, "failed")
  /\ UNCHANGED <<ticket, knock, budget>>

-----------------------------------------------------------------------------
(* What the program does by itself, and what browser and user do to it.     *)
Proceeds(l) ==
  \/ OpenBrowser(l) \/ Serve(l) \/ Timeout(l)
  \/ \E k \in knock : Accept(l, k)
  \/ \E outcome \in {"done", "lost", "refused"} : Exchange(l, outcome)

Browser(l) ==
  \/ \E m \in Shell \cup {None} : SignIn(l, m)
  \/ \E what \in {"page", "silent"} : Stray(l, what)
  \/ ExpireCode(l) \/ HangUp(l) \/ BreakOff(l) \/ Paste(l)

LoginStep == \E l \in Shell : Proceeds(l) \/ Browser(l)

LoginTypeOK ==
  /\ login \in [Shell ->
       [step : {"none", "open", "listen", "serve", "exchange", "paste", "got", "failed"},
        conn : Shell \cup {None, "page", "silent"},
        fallback : BOOLEAN, token : Shell \cup {None}]]
  /\ ticket \in [Shell -> {"none", "asked", "issued", "spent", "expired"}]
  /\ knock \subseteq [to : Shell, sends : Shell \cup {"page", "silent"}]
  /\ budget \in Budget
=============================================================================
