----------------------------- MODULE MCDispatch -----------------------------
(* Instances of Dispatch for TLC.                                          *)
EXTENDS Dispatch, TLC

CONSTANTS j1, j2, r1, web, qa, ch1, acme, ann, bob, smoke

Ask == [product |-> web, server |-> qa, channel |-> ch1]

TwoCommands == j1 :> Ask @@ j2 :> Ask

Typed(scope) ==
  [closed |-> TRUE, known |-> TRUE, action |-> "none", product |-> web, server |-> NULL,
   scope |-> scope, select |-> "plain", marker |-> "none"]

From(user, text) ==
  [signed |-> TRUE, team |-> acme, channel |-> ch1, user |-> user, text |-> text]

(* Ann names the test scope, Bob leaves it out.                            *)
AnnAndBob == j1 :> From(ann, Typed(smoke)) @@ j2 :> From(bob, Typed(NULL))

(* Anybody in the channel may run the one scope there is.                  *)
Open ==
  [secret |-> TRUE, team |-> acme, channels |-> {ch1}, users |-> {}, products |-> {web},
   servers |-> {qa}, scopes |-> {smoke}, insecure |-> FALSE]

(* Only Bob may, from anywhere.                                            *)
BobsOwn == [Open EXCEPT !.channels = {}, !.users = {bob}]

(* The list of callers was forgotten: the edge does not start.             *)
Forgotten == [Open EXCEPT !.channels = {}]

Environments == {Open, BobsOwn, Forgotten}
=============================================================================
