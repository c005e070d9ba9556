--------------------------- MODULE ImageVerdicts ----------------------------
(***************************************************************************)
(* What the processing side promises about a photo, with no queue, worker, *)
(* claim or lock in it: an uploaded photo waits until it gets one verdict, *)
(* which never changes; the verdict is the one its findings call for; and  *)
(* of a user's look-alike photos at most one is accepted.  The user may    *)
(* delete a photo at any time.                                             *)
(***************************************************************************)
EXTENDS Photos

VARIABLES
  gallery,   (* the photos that exist                                      *)
  verdict    (* the photo's state; kept as history once it is deleted      *)

vars == <<gallery, verdict>>

NoVerdict == [status |-> "NONE", reason |-> "none"]
Waiting == [status |-> "WAITING", reason |-> "none"]
Accepted == [status |-> "ACCEPTED", reason |-> "none"]
Failed == [status |-> "FAILED", reason |-> "none"]
Rejected(why) == [status |-> "REJECTED", reason |-> why]

Init == /\ gallery = {}
        /\ verdict = [i \in Image |-> NoVerdict]

Upload(i) == /\ verdict[i] = NoVerdict
             /\ gallery' = gallery \cup {i}
             /\ verdict' = [verdict EXCEPT ![i] = Waiting]

Delete(i) == /\ i \in gallery
             /\ gallery' = gallery \ {i}
             /\ UNCHANGED verdict

Settle(i, v) == /\ i \in gallery
                /\ verdict[i] = Waiting
                /\ verdict' = [verdict EXCEPT ![i] = v]
                /\ UNCHANGED gallery

Accept(i) == /\ Findings[i] = "PASS"
             /\ \A j \in gallery : LookAlike(j, i) => verdict[j] # Accepted
             /\ Settle(i, Accepted)

RejectFindings(i) == /\ Findings[i] \in CheckReasons
                     /\ Settle(i, Rejected(Findings[i]))

(* The photo it duplicates was accepted, and may have been deleted since. *)
RejectDuplicate(i) == /\ Findings[i] = "PASS"
                      /\ \E j \in Image : LookAlike(j, i) /\ verdict[j] = Accepted
                      /\ Settle(i, Rejected("DUPLICATE"))

(* One failExhausted statement gives up on several photos at once. *)
GiveUpAll(S) == /\ \A i \in S : i \in gallery /\ verdict[i] = Waiting
                /\ verdict' = [i \in Image |-> IF i \in S THEN Failed ELSE verdict[i]]
                /\ UNCHANGED gallery

Next == \/ \E i \in Image : \/ Upload(i)
                            \/ Delete(i)
                            \/ Accept(i)
                            \/ RejectFindings(i)
                            \/ RejectDuplicate(i)
        \/ \E S \in SUBSET Image : GiveUpAll(S)

Spec == Init /\ [][Next]_vars
=============================================================================
