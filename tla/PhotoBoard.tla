------------------------------ MODULE PhotoBoard ------------------------------
(***************************************************************************)
(* The board of photos, apps/web/src/hooks/usePhotoBoard.ts: the cards of  *)
(* this tab's uploads beside those of the GalleryCache, the announcements  *)
(* of verdicts for screen readers (useVerdictAnnouncement.ts), and the     *)
(* object URLs of local previews, which are handed from an upload's card   *)
(* to its photo's card and revoked when no card needs them any more        *)
(* (lib/uploads-reducer.ts, useObjectUrlCleanup.ts).                       *)
(*                                                                         *)
(* A preview is known by its photo.  A render and its effects are one      *)
(* step: they read only what was rendered and touch nothing else, and      *)
(* React runs them before it renders again.  An upload whose answer is      *)
(* lost, here one that is never heard of, keeps its card and preview; what *)
(* becomes of it is UploadQueue's.                                         *)
(***************************************************************************)
EXTENDS GalleryCache

CONSTANT Previewable    (* photos whose file this browser can render       *)

ASSUME PreviewsAreOfPhotos == Previewable \subseteq Image

VARIABLES
  item,       (* "none", "local" or "gone": the uploads that have a preview *)
  kept,       (* previewsByImageId: photos whose preview is kept           *)
  tracked,    (* trackedUrls: previews in use at the last render           *)
  pictured,   (* previews on a card at the last render                     *)
  revoked,    (* previews whose object URL was revoked                     *)
  snapshot,   (* previous.current: the statuses last looked at             *)
  announced   (* images whose verdict was announced                        *)

uploadVars == <<item, kept>>
effectVars == <<tracked, pictured, revoked, snapshot, announced>>
boardVars == <<vars, uploadVars, effectVars>>

(* previous.current = null *)
NoSnapshot == [i \in Image |-> "null"]

BoardInit == /\ Init
             /\ item = [i \in Previewable |-> "none"]
             /\ kept = {}
             /\ tracked = {}
             /\ pictured = {}
             /\ revoked = {}
             /\ snapshot = NoSnapshot
             /\ announced = {}

-----------------------------------------------------------------------------
(* The reducer of uploads, as far as previews go. *)

HasItem(i) == item[i] = "local"

(* addFiles: createLocalUpload makes the object URL. *)
AddFile(i) == /\ server[i] = "absent"
              /\ item[i] = "none"
              /\ item' = [item EXCEPT ![i] = "local"]
              /\ UNCHANGED <<vars, kept, effectVars>>

(* The request of an item that was removed or given up may still be served. *)
UploadPhoto(i) == /\ i \in Previewable => item[i] # "none"
                  /\ Upload(i)
                  /\ UNCHANGED <<uploadVars, effectVars>>

(* An answer is heard only of an item: removing it aborts its request.     *)
IsHeardOf(i) == i \in Previewable => HasItem(i)

(* succeed, then insertImage. *)
Succeed(i) ==
  /\ IsHeardOf(i)
  /\ item' = [j \in Previewable |-> IF j = i THEN "gone" ELSE item[j]]
  /\ kept' = kept \cup ({i} \cap Previewable)
  /\ InsertImage(i)
  /\ UNCHANGED effectVars

-----------------------------------------------------------------------------
(* removeCard *)

(* A card can be removed once it is on the page. *)
IsOnPage(i) == snapshot[i] \in {"waiting", "settled"}

RemoveLocalCard(i) == /\ HasItem(i)
                      /\ i \in pictured
                      /\ item' = [item EXCEPT ![i] = "gone"]
                      /\ UNCHANGED <<vars, kept, effectVars>>

(* deleteImage and releasePreview *)
RemoveServerCard(m, i) == /\ IsOnPage(i)
                          /\ BeginDelete(m, i)
                          /\ kept' = kept \ {i}
                          /\ UNCHANGED <<item, effectVars>>

-----------------------------------------------------------------------------
(* The cards of a render and its effects. *)

(* Mutant: the previews of photos are forgotten. *)
ItemUrls == {i \in Previewable : HasItem(i)}

(* selectObjectUrls *)
ObjectUrls == {i \in Previewable : HasItem(i)} \cup kept

(* localUploadToCard and imageToCard *)
PreviewsOfCards ==
  {i \in Previewable : HasItem(i) \/ (cache[i] # "out" /\ i \in kept)}

(* Mutant: new cards do not count. *)
CollectVerdictsOfKnownCards(from, to) ==
  {i \in Image : from[i] = "waiting" /\ to[i] = "settled"}

(* New cards count as changed. *)
CollectVerdicts(from, to) ==
  IF from = NoSnapshot THEN {}
  ELSE {i \in Image : from[i] # to[i] /\ to[i] = "settled"}

(* useVerdictAnnouncement: only once the list has been loaded, isReady. *)
Announce ==
  /\ announced' = IF loaded THEN announced \cup CollectVerdicts(snapshot, cache)
                  ELSE announced
  /\ snapshot' = IF loaded THEN cache ELSE snapshot

(* Mutant: the URLs in use are looked at once, when the board is mounted. *)
CleanUpOfMount(live) == /\ revoked' = revoked \cup (tracked \ live)
                        /\ tracked' = tracked

(* useObjectUrlCleanup *)
CleanUp(live) == /\ revoked' = revoked \cup (tracked \ live)
                 /\ tracked' = live

Render == /\ pictured' = PreviewsOfCards
          /\ CleanUp(ObjectUrls)
          /\ Announce
          /\ UNCHANGED <<vars, uploadVars>>

-----------------------------------------------------------------------------
CacheStep == BackgroundStep /\ UNCHANGED <<uploadVars, effectVars>>

BoardNext == \/ CacheStep
             \/ \E i \in Image : UploadPhoto(i) \/ Succeed(i)
             \/ \E i \in Previewable : AddFile(i) \/ RemoveLocalCard(i)
             \/ \E m \in Mutation, i \in Image : RemoveServerCard(m, i)
             \/ Render

BoardSpec == BoardInit /\ [][BoardNext]_boardVars

(* React renders, and runs effects. *)
BoardFairSpec == BoardSpec /\ Fairness /\ WF_boardVars(Render)

-----------------------------------------------------------------------------
(* Properties. *)

(* A photo that was seen waiting has its verdict announced, unless it was  *)
(* deleted: a delete that failed and was rolled back does not lose it.     *)
(* (Only if the refetch after that rollback fails may a photo inserted     *)
(* meanwhile be missing, until the next refetch.)                          *)
EveryVerdictIsAnnounced ==
  \A i \in Image :
    snapshot[i] = "waiting" ~>
      i \in announced \/ server[i] = "deleted" \/ fetch.step = "failed"

(* No card on the page shows a preview whose URL was revoked, as the       *)
(* preview goes from the upload to its photo, through removed uploads,     *)
(* lists that have the photo before its upload is answered, and deletes    *)
(* that are rolled back.                                                   *)
PicturedPreviewsAreLive == pictured \cap revoked = {}

(* A preview that nothing refers to any more is revoked, so that the       *)
(* browser can let go of the file: none is dropped before it was tracked.  *)
PreviewsAreReleased ==
  \A i \in Previewable :
    item[i] # "none" /\ i \notin ObjectUrls ~> i \in revoked
=============================================================================
