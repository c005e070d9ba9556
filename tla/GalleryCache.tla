---------------------------- MODULE GalleryCache ----------------------------
(***************************************************************************)
(* The browser's copy of the gallery: the images query and its mutations,  *)
(* apps/web/src/hooks/useImages.ts over lib/image-list-cache.ts.           *)
(*                                                                         *)
(* The query library is modelled from how it is used: one fetch at a time; *)
(* invalidating starts it afresh; cancelling drops its answer.  A fetch    *)
(* reads the server at one moment and its answer arrives at a later one;   *)
(* so does a DELETE, and any of their answers may be lost.                 *)
(***************************************************************************)
CONSTANTS
  Image,      (* the user's images                                          *)
  Mutation    (* deletes the user asks for, each one mutation               *)

VARIABLES
  server,     (* the rows of the user                                       *)
  uploads,    (* images this tab uploaded and did not hear of               *)
  loaded,     (* the query has data                                         *)
  cache,      (* its data                                                   *)
  fetch,      (* the query's fetch, and the list it was answered with       *)
  mutation    (* each delete: its step, its image and `previous`            *)

vars == <<server, uploads, loaded, cache, fetch, mutation>>

(* A list of images is a status for each that is on it. *)
List == [Image -> {"out", "waiting", "settled"}]
NothingListed == [i \in Image |-> "out"]

(* isInFlight; the verdicts need not be told apart. *)
InFlight(list) == {i \in Image : list[i] = "waiting"}

ServerList == [i \in Image |-> IF server[i] \in {"waiting", "settled"}
                               THEN server[i] ELSE "out"]

prependImage(list, i) == [list EXCEPT ![i] = "waiting"]
removeImage(list, i) == [list EXCEPT ![i] = "out"]

Fetch(step, list) == [step |-> step, list |-> list]
Sent == Fetch("sent", NothingListed)
NoFetch == {"idle", "failed"}
NoMutation(step) == [step |-> step, image |-> "none", previous |-> NothingListed]

(* Mounting useImages starts the first fetch. *)
Init == /\ server \in [Image -> {"absent", "waiting", "settled"}]
        /\ uploads = {}
        /\ loaded = FALSE
        /\ cache = NothingListed
        /\ fetch = Sent
        /\ mutation = [m \in Mutation |-> NoMutation("idle")]

-----------------------------------------------------------------------------
(* The server. *)

(* POST stores a photo; the tab has not heard of it yet. *)
Upload(i) == /\ server[i] = "absent"
             /\ server' = [server EXCEPT ![i] = "waiting"]
             /\ uploads' = uploads \cup {i}
             /\ UNCHANGED <<loaded, cache, fetch, mutation>>

Verdict(i) == /\ server[i] = "waiting"
              /\ server' = [server EXCEPT ![i] = "settled"]
              /\ UNCHANGED <<uploads, loaded, cache, fetch, mutation>>

AnswerFetch == /\ fetch.step = "sent"
               /\ fetch' = Fetch("answered", ServerList)
               /\ UNCHANGED <<server, uploads, loaded, cache, mutation>>

-----------------------------------------------------------------------------
(* The query. *)

ReceiveList == /\ fetch.step = "answered"
               /\ cache' = fetch.list
               /\ loaded' = TRUE
               /\ fetch' = Fetch("idle", NothingListed)
               /\ UNCHANGED <<server, uploads, mutation>>

(* The data stays, and with it the polling.  Whether the request or its    *)
(* answer was lost, the browser cannot tell.                               *)
FetchFails == /\ fetch.step = "answered"
              /\ fetch' = Fetch("failed", NothingListed)
              /\ UNCHANGED <<server, uploads, loaded, cache, mutation>>

StartFetch == /\ fetch.step \in NoFetch
              /\ fetch' = Sent
              /\ UNCHANGED <<server, uploads, loaded, cache, mutation>>

(* reload, and the window's regaining focus or connection. *)
Refetch == StartFetch

(* Mutant: polling stops as soon as some photo has its verdict. *)
PollUntilAnyVerdict == /\ InFlight(cache) # {}
                       /\ \A i \in Image : cache[i] # "settled"
                       /\ StartFetch

(* refetchInterval: pollIntervalFor. *)
Poll == /\ InFlight(cache) # {}
        /\ StartFetch

(* useInsertImage: prependImage, then invalidate.  The list may have been  *)
(* undefined until then.                                                   *)
InsertImage(i) == /\ i \in uploads
                  /\ uploads' = uploads \ {i}
                  /\ cache' = prependImage(cache, i)
                  /\ loaded' = TRUE
                  /\ fetch' = Sent
                  /\ UNCHANGED <<server, mutation>>

-----------------------------------------------------------------------------
(* useDeleteImage. *)

MutationGoes(m, x) == mutation' = [mutation EXCEPT ![m] = x]

(* onMutate: cancelQueries resolves before any other event is handled.     *)
BeginDelete(m, i) ==
  /\ mutation[m].step = "idle"
  /\ cache[i] # "out"
  /\ fetch' = IF fetch.step \in NoFetch THEN fetch ELSE Fetch("idle", NothingListed)
  /\ cache' = removeImage(cache, i)
  /\ MutationGoes(m, [step |-> "sent", image |-> i, previous |-> cache])
  /\ UNCHANGED <<server, uploads, loaded>>

(* DELETE, answered 204; or 404 when the image is no longer there. *)
ServeDelete(m) ==
  LET i == mutation[m].image
  IN  /\ mutation[m].step = "sent"
      /\ MutationGoes(m, [mutation[m] EXCEPT !.step =
                            IF ServerList[i] = "out" THEN "error" ELSE "success"])
      /\ server' = [server EXCEPT ![i] = "deleted"]
      /\ UNCHANGED <<uploads, loaded, cache, fetch>>

(* The request or its answer is lost. *)
DeleteFails(m) ==
  LET i == mutation[m].image
  IN  /\ mutation[m].step = "sent"
      /\ server' \in {server, [server EXCEPT ![i] = "deleted"]}
      /\ MutationGoes(m, [mutation[m] EXCEPT !.step = "error"])
      /\ UNCHANGED <<uploads, loaded, cache, fetch>>

(* Mutant: only a success invalidates the query. *)
EndDeleteInvalidatingOnSuccess(m) ==
  LET x == mutation[m]
  IN  /\ x.step \in {"success", "error"}
      /\ cache' = IF x.step = "error" THEN x.previous ELSE cache
      /\ fetch' = IF x.step = "error" THEN fetch ELSE Sent
      /\ MutationGoes(m, NoMutation("over"))
      /\ UNCHANGED <<server, uploads, loaded>>

(* onError rolls back to `previous`, whatever has happened to the list     *)
(* since; onSettled invalidates.                                           *)
EndDelete(m) ==
  LET x == mutation[m]
  IN  /\ x.step \in {"success", "error"}
      /\ cache' = IF x.step = "error" THEN x.previous ELSE cache
      /\ fetch' = Sent
      /\ MutationGoes(m, NoMutation("over"))
      /\ UNCHANGED <<server, uploads, loaded>>

-----------------------------------------------------------------------------
DeleteStep(m) == ServeDelete(m) \/ EndDelete(m)

(* What goes on by itself, whatever this tab's user does. *)
BackgroundStep == \/ AnswerFetch \/ ReceiveList \/ FetchFails
                  \/ Refetch
                  \/ Poll
                  \/ \E i \in Image : Verdict(i)
                  \/ \E m \in Mutation : DeleteStep(m) \/ DeleteFails(m)

Next == \/ BackgroundStep
        \/ \E i \in Image : Upload(i) \/ InsertImage(i)
        \/ \E m \in Mutation, i \in Image : BeginDelete(m, i)

Spec == Init /\ [][Next]_vars

(* Photos get their verdict, the interval fires, requests are answered,    *)
(* and not every fetch fails.  Nobody need reload, no window regain focus. *)
Fairness == /\ WF_vars(AnswerFetch)
            /\ SF_vars(ReceiveList)
            /\ WF_vars(Poll)
            /\ \A i \in Image : WF_vars(Verdict(i))
            /\ \A m \in Mutation : WF_vars(DeleteStep(m))

FairSpec == Spec /\ Fairness

-----------------------------------------------------------------------------
(* Properties.  The first is the type invariant. *)

TypeOK == /\ server \in [Image -> {"absent", "waiting", "settled", "deleted"}]
          /\ uploads \subseteq Image
          /\ loaded \in BOOLEAN
          /\ cache \in List
          /\ fetch \in [step : NoFetch \cup {"sent", "answered"}, list : List]
          /\ mutation \in [Mutation -> [step : {"idle", "sent", "success",
                                                "error", "over"},
                                        image : Image \cup {"none"},
                                        previous : List]]

Quiet == /\ loaded
         /\ fetch.step = "idle"
         /\ InFlight(cache) = {}
         /\ \A m \in Mutation : mutation[m].step \in {"idle", "over"}

(* Once nothing is under way and no timer is set, the gallery shows what   *)
(* the server has, whatever optimistic removals, rollbacks to outdated     *)
(* snapshots, inserts and cancelled fetches went before; a last fetch that *)
(* failed, or an upload whose answer never came, may leave it behind.      *)
CacheConverges ==
  Quiet => \A i \in Image \ uploads : cache[i] = ServerList[i]

(* A photo on display gets its verdict on display, or is removed: polling  *)
(* does not stop too early, and survives cancelled and failed fetches.     *)
EveryVerdictIsShown ==
  \A i \in Image : cache[i] = "waiting" ~> cache[i] # "waiting"
=============================================================================
