--------------------------- MODULE SlackNotifier ----------------------------
(***************************************************************************)
(* A SlackNotifier (slack.py): one message that is posted and then edited. *)
(* Operators on the value n of a notifier and on the outcome c of the one  *)
(* call of the Slack API that post and update make.  Without a token the   *)
(* same texts go to the console, which always takes them.                  *)
(*                                                                         *)
(* Time is counted in ticks; THROTTLE of them are the seconds that have to *)
(* pass between two edits.                                                 *)
(***************************************************************************)
EXTENDS Naturals, Sequences

CONSTANTS
  THROTTLE,  \* MIN_SECONDS_BETWEEN_EDITS, in ticks
  NONE       \* Python's None

ASSUME ThrottleAssumption == THROTTLE \in Nat \ {0} /\ NONE \notin Nat

(* `ts` names the message that is edited, by its place among those of the  *)
(* notifier, and is 0 when it is the empty string; `quiet` is the time     *)
(* since the last edit.  The rest is history: the texts its messages show, *)
(* the edits asked of Slack, and whether Slack said ok to every call.      *)
Fresh == [ts |-> NONE, quiet |-> THROTTLE, messages |-> <<>>, edits |-> 0, heard |-> TRUE]

(* What comes of a call: Slack does what it was asked or not, and the      *)
(* caller is told so, is told of a failure (refused, unreachable, no       *)
(* answer in time), or gets an exception that `_call` does not expect: the *)
(* connection ended before the answer was complete.                        *)
Call == [done : BOOLEAN, answer : {"ok", "failed", "raised"}]

Told(n, c) == n.heard /\ c.answer = "ok"

(* Mutant: a post that failed is as if it had not been made.               *)
PostedOrNone(n, text, c) ==
  [n EXCEPT !.messages = IF c.done THEN Append(n.messages, text) ELSE n.messages,
            !.ts = IF c.answer = "ok" THEN Len(n.messages) + 1 ELSE n.ts,
            !.heard = Told(n, c)]

(* post: without an id in the answer the notifier keeps the one it has, or *)
(* the empty string.                                                       *)
Posted(n, text, c) ==
  [n EXCEPT !.messages = IF c.done THEN Append(n.messages, text) ELSE n.messages,
            !.ts = CASE c.answer = "ok" -> Len(n.messages) + 1
                     [] c.answer = "failed" -> IF n.ts = NONE THEN 0 ELSE n.ts
                     [] c.answer = "raised" -> n.ts,
            !.heard = Told(n, c)]

(* An update that comes too soon after the last edit is not sent.          *)
Throttled(n, force) == n.ts # NONE /\ ~force /\ n.quiet < THROTTLE

(* Mutant: only an edit that Slack took counts.                            *)
EditedIfTaken(n, text, c) ==
  [n EXCEPT !.messages = IF c.done /\ n.ts # 0 THEN [n.messages EXCEPT ![n.ts] = text]
                         ELSE n.messages,
            !.quiet = IF c.answer = "ok" THEN 0 ELSE n.quiet,
            !.edits = n.edits + 1,
            !.heard = Told(n, c)]

(* chat.update; no message has the empty id.                               *)
Edited(n, text, c) ==
  [n EXCEPT !.messages = IF c.done /\ n.ts # 0 THEN [n.messages EXCEPT ![n.ts] = text]
                         ELSE n.messages,
            !.quiet = 0,
            !.edits = n.edits + 1,
            !.heard = Told(n, c)]

(* update: the first one posts, later ones edit.                           *)
Updated(n, text, force, c) ==
  IF n.ts = NONE THEN Posted(n, text, c)
  ELSE IF Throttled(n, force) THEN n
  ELSE Edited(n, text, c)

(* The calls that can come of it: Slack says ok to what it has done, and   *)
(* does nothing to a message that does not exist.                          *)
Possible(n) ==
  {c \in Call : /\ c.answer = "ok" => c.done
                /\ n.ts = 0 => ~c.done}

Quieter(n) == [n EXCEPT !.quiet = IF n.quiet < THROTTLE THEN n.quiet + 1 ELSE n.quiet]
=============================================================================
