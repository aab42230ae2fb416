--------------------------- MODULE LetterDelivery ---------------------------
(***************************************************************************)
(* What the Celery tasks promise notifications-api, without queues,        *)
(* processes or failures: a letter is spoken of only while everything the  *)
(* API goes on to use is in S3, and what is said of it never changes.      *)
(***************************************************************************)
CONSTANT Letter

VARIABLES
  stored,   \* what S3 holds of each letter
  told      \* what the API has been told about each letter

vars == <<stored, told>>

(* The sanitised PDF, the backup of the original, the PDF to be printed,   *)
(* and the PDF that is too long to be.                                     *)
Artefact == {"sanitised", "original", "print", "too_long"}

Saying == {"passed", "failed", "unreadable", "billable", "too_long"}

(* What the API uses when it is told so.                                   *)
Needs(saying) ==
  CASE saying = "passed"   -> {"sanitised", "original"}
    [] saying = "billable" -> {"print"}
    [] saying = "too_long" -> {"too_long"}
    [] OTHER               -> {}

(* "unreadable" may be an accident of one run and contradicts nothing.     *)
Contradict(a, b) == a # b /\ "unreadable" \notin {a, b}

Init ==
  /\ stored = [id \in Letter |-> {}]
  /\ told = [id \in Letter |-> {}]

Store(id, artefact) ==
  /\ stored' = [stored EXCEPT ![id] = @ \cup {artefact}]
  /\ UNCHANGED told

(* The backup of the original is held for a week; nothing else goes.       *)
Expire(id) ==
  /\ stored' = [stored EXCEPT ![id] = @ \ {"original"}]
  /\ UNCHANGED told

Tell(id, saying) ==
  /\ Needs(saying) \subseteq stored[id]
  /\ \A said \in told[id] : ~Contradict(saying, said)
  /\ told' = [told EXCEPT ![id] = @ \cup {saying}]
  /\ UNCHANGED stored

Next ==
  \E id \in Letter :
    \/ \E artefact \in Artefact : Store(id, artefact)
    \/ Expire(id)
    \/ \E saying \in Saying : Tell(id, saying)

Spec == Init /\ [][Next]_vars

-----------------------------------------------------------------------------
TypeOK ==
  /\ stored \in [Letter -> SUBSET Artefact]
  /\ told \in [Letter -> SUBSET Saying]

(* What the API may go by at any later time: all it was told of a letter   *)
(* fits together, and what it needs is still there, but for a backup that  *)
(* was held for its week.                                                  *)
Reliable ==
  \A id \in Letter : \A saying \in told[id] :
    /\ Needs(saying) \ {"original"} \subseteq stored[id]
    /\ \A said \in told[id] : ~Contradict(saying, said)
===========================================================================
