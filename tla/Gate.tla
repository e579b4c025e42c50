-------------------------------- MODULE Gate --------------------------------
(***************************************************************************)
(* The decisions about one slash command, shared by the edge and the       *)
(* standalone server: whether a process may serve at all (authz.py), the   *)
(* four checks every command passes (gate.py), and what its text means     *)
(* under the deployment's allowlists (parsing.py).                         *)
(*                                                                         *)
(* Nothing here has a state.  A configuration is what a process read from  *)
(* its environment when it started; a request is one delivery of a         *)
(* command.  The text of a command is what shlex and argparse make of it:  *)
(* the value of each flag, or NULL for a flag that was not given.          *)
(***************************************************************************)
CONSTANTS
  Team, Channel, User,      \* where a command can come from
  Product, Server, Scope,   \* the values its flags can name
  NULL

OrNull(S) == S \cup {NULL}

(* -k and -m: not given, an expression of plain characters, or another.    *)
Expression == {"none", "plain", "odd"}

Text ==
  [closed  : BOOLEAN,       \* every quote it opens is closed
   known   : BOOLEAN,       \* no flag, and no second word, that the parser has not
   action  : {"none", "run", "results", "other"},
   product : OrNull(Product), server : OrNull(Server), scope : OrNull(Scope),
   select  : Expression, marker : Expression]

Request ==
  [signed : BOOLEAN, team : Team, channel : Channel, user : User, text : Text]

Configuration ==
  [secret   : BOOLEAN, team : OrNull(Team),
   channels : SUBSET Channel, users : SUBSET User,
   products : SUBSET Product, servers : SUBSET Server, scopes : SUBSET Scope,
   insecure : BOOLEAN]      \* RUNTESTS_INSECURE_DEV
-----------------------------------------------------------------------------
(* Mutant: nobody has to be listed.                                        *)
MissingAnyCaller(c) ==
  {p \in {"secret"}   : ~c.secret} \cup
  {p \in {"team"}     : c.team = NULL} \cup
  {p \in {"products"} : c.products = {}} \cup
  {p \in {"servers"}  : c.servers = {}} \cup
  {p \in {"scopes"}   : c.scopes = {}}

(* missing_protections: everything a process needs before it serves.       *)
Missing(c) ==
  {p \in {"secret"}   : ~c.secret} \cup
  {p \in {"team"}     : c.team = NULL} \cup
  {p \in {"callers"}  : c.channels = {} /\ c.users = {}} \cup
  {p \in {"products"} : c.products = {}} \cup
  {p \in {"servers"}  : c.servers = {}} \cup
  {p \in {"scopes"}   : c.scopes = {}}

(* refuse_or_warn                                                          *)
Serves(c) == Missing(c) = {} \/ c.insecure
-----------------------------------------------------------------------------
(* The checks of gate.check.  Without a secret a request is accepted as it *)
(* is, and an allowlist that is empty is not asked.                        *)
Verified(c, q) == c.secret => q.signed
RightTeam(c, q) == c.team # NULL => q.team = c.team
RightChannel(c, q) == c.channels # {} => q.channel \in c.channels
RightUser(c, q) == c.users # {} => q.user \in c.users

Chosen(value, values) == value = NULL \/ value \in values

(* A flag that was not given, where only one value is allowed.             *)
OnlyValue(values) == IF \E v \in values : values = {v} THEN CHOOSE v \in values : TRUE ELSE NULL
Resolved(value, values) == IF value = NULL THEN OnlyValue(values) ELSE value

(* The permissive pass, whose answer is which action the text names.       *)
PeekAccepts(c, t) ==
  /\ t.known
  /\ t.action # "other"
  /\ t.product \in c.products
  /\ Chosen(t.server, c.servers)
  /\ Chosen(t.scope, c.scopes)

(* The second pass, which a run has to get through as well.                *)
RunAccepts(c, t) ==
  /\ PeekAccepts(c, t)
  /\ Resolved(t.server, c.servers) # NULL
  /\ Resolved(t.scope, c.scopes) # NULL

PlainExpressions(t) == "odd" \notin {t.select, t.marker}

(* parse.  shlex raises on a quote that is not closed, and nobody catches  *)
(* it: the request fails.                                                  *)
Reading(c, t) ==
  IF {} \in {c.products, c.servers, c.scopes} THEN "bad wording"
  ELSE IF ~t.closed THEN "server error"
  ELSE IF t.action = "results"
       THEN IF PeekAccepts(c, t) /\ PlainExpressions(t) THEN "results" ELSE "bad wording"
       ELSE IF RunAccepts(c, t) /\ PlainExpressions(t) THEN "run" ELSE "bad wording"

(* check: what becomes of a request, each refusal before the next check.   *)
Verdict(c, q) ==
  IF ~Verified(c, q) THEN "bad signature"
  ELSE IF ~RightTeam(c, q) THEN "wrong workspace"
  ELSE IF ~RightChannel(c, q) THEN "wrong channel"
  ELSE IF ~RightUser(c, q) THEN "wrong user"
  ELSE Reading(c, q.text)

(* The product, scope and server an accepted run asks for.                 *)
Trigger(c, t) ==
  <<t.product, Resolved(t.scope, c.scopes), Resolved(t.server, c.servers)>>
-----------------------------------------------------------------------------
(* Who may start what, said without the order of the checks or the passes  *)
(* of the parser: the command comes from this deployment's Slack, from a   *)
(* place or a person on its allowlists and from none they leave out, and   *)
(* every value it is run with is one of theirs.                            *)
Entitled(c, q) ==
  /\ q.signed
  /\ q.team = c.team
  /\ q.channel \in c.channels \/ q.user \in c.users
  /\ c.channels = {} \/ q.channel \in c.channels
  /\ c.users = {} \/ q.user \in c.users
  /\ Trigger(c, q.text) \in c.products \X c.scopes \X c.servers
=============================================================================
