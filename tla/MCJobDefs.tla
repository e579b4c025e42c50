----------------------------- MODULE MCJobDefs ------------------------------
(* Instances of JobDefs for TLC.                                           *)
EXTENDS JobDefs

CONSTANTS d1, d2, s1, s2, s3

(* A body may name something the deployment does not allow.             *)
Named == Trigger \cup {<<"mobile", "smoke", "qa">>}

Text(t, action, language, target, complete) ==
  [trigger |-> t, action |-> action, language |-> language, target |-> target,
   complete |-> complete]

(* Good bodies for every trigger, and one of each kind that is refused.    *)
Bodies ==
  {Text(t, "test-server", "python", "", TRUE) : t \in Trigger}
    \cup {Text(<<"web", "smoke", "qa">>, "gh-action", "cobol", "", TRUE),
          Text(<<"web", "smoke", "qa">>, "gh-action", "node", "own.yml", FALSE),
          Text(<<"mobile", "smoke", "qa">>, "gh-action", "node", "own.yml", TRUE),
          Text(<<"web", "smoke", "qa">>, "cron", "node", "own.yml", TRUE),
          NULL}
=============================================================================
