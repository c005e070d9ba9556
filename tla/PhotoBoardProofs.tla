--------------------------- MODULE PhotoBoardProofs ---------------------------
(***************************************************************************)
(* For any photos, any of them with a preview, and any number of deletes:  *)
(* the gallery's cache comes to agree with the server, and no card on the  *)
(* page shows a preview that was revoked.                                  *)
(***************************************************************************)
EXTENDS PhotoBoard, TLAPS

-----------------------------------------------------------------------------
(* The cache of the gallery. *)

(* A list is behind only by verdicts it still waits for, and by uploads    *)
(* that will be inserted.                                                  *)
IsUpToDate(list) ==
  \A i \in Image \ uploads :
    \/ list[i] = ServerList[i]
    \/ list[i] = "waiting" /\ server[i] = "settled"

(* What an idle query holds, or is about to receive, is up to date unless  *)
(* a delete is under way, whose end starts the fetch afresh.               *)
IsDeleting == \E m \in Mutation : mutation[m].step \notin {"idle", "over"}

ListsAreUpToDate ==
  \/ IsDeleting
  \/ /\ loaded /\ fetch.step = "idle" => IsUpToDate(cache)
     /\ fetch.step = "answered" => IsUpToDate(fetch.list)

CacheInv == TypeOK /\ ListsAreUpToDate

(* The states of a delete. *)
MutationState == [step : {"idle", "sent", "success", "error", "over"},
                  image : Image \cup {"none"},
                  previous : List]

(* Deletes and lists are what they are to be.                              *)
LEMMA CacheTypes ==
  /\ NothingListed \in List
  /\ \A step \in {"idle", "sent", "success", "error", "over"} :
       NoMutation(step) \in MutationState
  /\ \A step \in NoFetch \cup {"sent", "answered"} : \A list \in List :
       Fetch(step, list) \in [step : NoFetch \cup {"sent", "answered"}, list : List]
  /\ \A step, list : Fetch(step, list).step = step /\ Fetch(step, list).list = list
<1>1. NothingListed \in List
  BY DEF NothingListed, List
<1> QED
  BY <1>1 DEF NoMutation, MutationState, Fetch

(* The server's list is one.                                               *)
LEMMA ServerListType == ServerList \in List
BY DEF ServerList, List

(* Every step of the query, its mutations and the server.                  *)
LEMMA CacheStepsKeepTypes ==
  ASSUME TypeOK, [Next]_vars
  PROVE  TypeOK'
<1> USE CacheTypes, ServerListType
<1> DEFINE Rows == [Image -> {"absent", "waiting", "settled", "deleted"}]
           Fetches == [step : NoFetch \cup {"sent", "answered"}, list : List]
<1>0. /\ server \in Rows /\ uploads \subseteq Image /\ loaded \in BOOLEAN
      /\ cache \in List /\ fetch \in Fetches /\ mutation \in [Mutation -> MutationState]
  BY DEF TypeOK, MutationState
<1>1. \A i \in Image : \A s \in {"absent", "waiting", "settled", "deleted"} :
        [server EXCEPT ![i] = s] \in Rows
  BY <1>0
<1>2. Sent \in Fetches /\ Fetch("answered", ServerList) \in Fetches
      /\ Fetch("idle", NothingListed) \in Fetches /\ Fetch("failed", NothingListed) \in Fetches
  BY DEF Sent, NoFetch
<1>3. \A m \in Mutation : \A x \in MutationState :
        [mutation EXCEPT ![m] = x] \in [Mutation -> MutationState]
  BY <1>0
<1>4. \A i \in Image : prependImage(cache, i) \in List /\ removeImage(cache, i) \in List
  BY <1>0 DEF prependImage, removeImage, List
<1> SUFFICES /\ server' \in Rows /\ uploads' \subseteq Image /\ loaded' \in BOOLEAN
             /\ cache' \in List /\ fetch' \in Fetches
             /\ mutation' \in [Mutation -> MutationState]
  BY DEF TypeOK, MutationState
<1> HIDE DEF Rows, Fetches
<1>5. ASSUME NEW i \in Image, Upload(i) \/ Verdict(i) \/ InsertImage(i)
      PROVE  /\ server' \in Rows /\ uploads' \subseteq Image /\ loaded' \in BOOLEAN
             /\ cache' \in List /\ fetch' \in Fetches
             /\ mutation' \in [Mutation -> MutationState]
  <2>1. CASE Upload(i)
    BY <1>0, <1>1, <2>1 DEF Upload
  <2>2. CASE Verdict(i)
    BY <1>0, <1>1, <2>2 DEF Verdict
  <2>3. CASE InsertImage(i)
    BY <1>0, <1>2, <1>4, <2>3 DEF InsertImage
  <2> QED
    BY <1>5, <2>1, <2>2, <2>3
<1>6. CASE AnswerFetch \/ FetchFails \/ Refetch \/ Poll
  BY <1>0, <1>2, <1>6 DEF AnswerFetch, FetchFails, Refetch, Poll, StartFetch
<1>7. CASE ReceiveList
  <2>1. fetch.list \in List
    BY <1>0 DEF Fetches
  <2> QED
    BY <1>0, <1>2, <1>7, <2>1 DEF ReceiveList
<1>8. ASSUME NEW m \in Mutation, NEW i \in Image, BeginDelete(m, i)
      PROVE  /\ server' \in Rows /\ uploads' \subseteq Image /\ loaded' \in BOOLEAN
             /\ cache' \in List /\ fetch' \in Fetches
             /\ mutation' \in [Mutation -> MutationState]
  <2>1. [step |-> "sent", image |-> i, previous |-> cache] \in MutationState
    BY <1>0 DEF MutationState
  <2> QED
    BY <1>0, <1>2, <1>3, <1>4, <1>8, <2>1 DEF BeginDelete, MutationGoes
<1>9. ASSUME NEW m \in Mutation, ServeDelete(m) \/ DeleteFails(m)
      PROVE  /\ server' \in Rows /\ uploads' \subseteq Image /\ loaded' \in BOOLEAN
             /\ cache' \in List /\ fetch' \in Fetches
             /\ mutation' \in [Mutation -> MutationState]
  <2>1. mutation[m] \in MutationState
    BY <1>0
  <2>2. \A s \in {"success", "error"} : [mutation[m] EXCEPT !.step = s] \in MutationState
    BY <2>1 DEF MutationState
  <2>3. mutation' \in [Mutation -> MutationState]
    BY <1>3, <1>9, <2>2 DEF ServeDelete, DeleteFails, MutationGoes
  <2>4. server' \in Rows
    BY <1>0, <1>9 DEF ServeDelete, DeleteFails, Rows
  <2> QED
    BY <1>0, <1>9, <2>3, <2>4 DEF ServeDelete, DeleteFails
<1>10. ASSUME NEW m \in Mutation, EndDelete(m)
       PROVE  /\ server' \in Rows /\ uploads' \subseteq Image /\ loaded' \in BOOLEAN
              /\ cache' \in List /\ fetch' \in Fetches
              /\ mutation' \in [Mutation -> MutationState]
  <2>1. mutation[m].previous \in List
    BY <1>0 DEF MutationState
  <2> QED
    BY <1>0, <1>2, <1>3, <1>10, <2>1 DEF EndDelete, MutationGoes
<1>11. CASE UNCHANGED vars
  BY <1>0, <1>11 DEF vars
<1> QED
  BY <1>5, <1>6, <1>7, <1>8, <1>9, <1>10, <1>11 DEF Next, BackgroundStep, DeleteStep

(* What could put a list out of date starts the fetch afresh.              *)
LEMMA CacheStepsKeepLists ==
  ASSUME CacheInv, [Next]_vars
  PROVE  ListsAreUpToDate'
<1> USE CacheTypes
<1>0. /\ server \in [Image -> {"absent", "waiting", "settled", "deleted"}]
      /\ mutation \in [Mutation -> MutationState]
  BY DEF CacheInv, TypeOK, MutationState
<1>1. ASSUME NEW i \in Image, Upload(i) \/ Verdict(i) PROVE ListsAreUpToDate'
  <2>1. \A list : IsUpToDate(list) => IsUpToDate(list)'
    <3> SUFFICES ASSUME NEW list, IsUpToDate(list), NEW j \in Image \ uploads'
                 PROVE  \/ list[j] = ServerList'[j]
                        \/ list[j] = "waiting" /\ server'[j] = "settled"
      BY DEF IsUpToDate
    <3>1. j \in Image \ uploads
      BY <1>1 DEF Upload, Verdict
    <3>2. \/ list[j] = ServerList[j]
          \/ list[j] = "waiting" /\ server[j] = "settled"
      BY <3>1 DEF IsUpToDate
    <3>3. server'[j] = server[j] \/ (server[j] = "waiting" /\ server'[j] = "settled")
      BY <1>0, <1>1, <3>1 DEF Upload, Verdict
    <3> QED
      BY <3>1, <3>2, <3>3 DEF ServerList
  <2>2. UNCHANGED <<loaded, cache, fetch, mutation>>
    BY <1>1 DEF Upload, Verdict
  <2> QED
    BY <2>1, <2>2 DEF CacheInv, ListsAreUpToDate, IsDeleting
<1>2. CASE AnswerFetch
  <2>1. IsUpToDate(ServerList)'
    BY DEF IsUpToDate
  <2> QED
    BY <1>2, <2>1 DEF AnswerFetch, ListsAreUpToDate, IsUpToDate, ServerList
<1>3. CASE ReceiveList
  <2>1. UNCHANGED <<server, uploads, mutation>> /\ cache' = fetch.list
        /\ fetch.step = "answered" /\ fetch'.step = "idle"
    BY <1>3 DEF ReceiveList
  <2> QED
    BY <2>1 DEF CacheInv, ListsAreUpToDate, IsDeleting, IsUpToDate, ServerList
<1>4. CASE fetch'.step \notin {"idle", "answered"}
  BY <1>4 DEF ListsAreUpToDate
<1>5. CASE FetchFails \/ Refetch \/ Poll \/ \E i \in Image : InsertImage(i)
  BY <1>4, <1>5 DEF FetchFails, Refetch, Poll, StartFetch, InsertImage, Sent
<1>6. ASSUME NEW m \in Mutation, EndDelete(m) PROVE ListsAreUpToDate'
  BY <1>4, <1>6 DEF EndDelete, Sent
<1>7. ASSUME NEW m \in Mutation, NEW i \in Image, BeginDelete(m, i) PROVE ListsAreUpToDate'
  <2>1. mutation'[m].step = "sent"
    BY <1>0, <1>7 DEF BeginDelete, MutationGoes
  <2> QED
    BY <2>1 DEF ListsAreUpToDate, IsDeleting
<1>8. ASSUME NEW m \in Mutation, ServeDelete(m) \/ DeleteFails(m) PROVE ListsAreUpToDate'
  <2>1. mutation[m] \in MutationState
    BY <1>0
  <2>2. mutation'[m].step \in {"success", "error"}
    BY <1>0, <1>8, <2>1 DEF ServeDelete, DeleteFails, MutationGoes, MutationState
  <2> QED
    BY <2>2 DEF ListsAreUpToDate, IsDeleting
<1>9. CASE UNCHANGED vars
  BY <1>9 DEF vars, CacheInv, ListsAreUpToDate, IsDeleting, IsUpToDate, ServerList
<1> QED
  BY <1>1, <1>2, <1>3, <1>5, <1>6, <1>7, <1>8, <1>9 DEF Next, BackgroundStep, DeleteStep

(* The first fetch is under way.                                           *)
LEMMA InitEstablishesCacheInv == Init => CacheInv
<1> SUFFICES ASSUME Init PROVE CacheInv
  OBVIOUS
<1>1. Sent \in [step : NoFetch \cup {"sent", "answered"}, list : List] /\ Sent.step = "sent"
  BY CacheTypes DEF Sent
<1>2. TypeOK
  <2>1. \A m \in Mutation : NoMutation("idle") \in MutationState
    BY CacheTypes
  <2>2. mutation \in [Mutation -> MutationState]
    BY <2>1 DEF Init
  <2>3. server \in [Image -> {"absent", "waiting", "settled", "deleted"}]
    BY DEF Init
  <2> QED
    BY <1>1, <2>2, <2>3, CacheTypes DEF Init, TypeOK, MutationState
<1> QED
  BY <1>1, <1>2 DEF Init, CacheInv, ListsAreUpToDate

(* The query, its lists and the deletes stay within their types.           *)
THEOREM CacheTypeCorrect == Spec => []TypeOK
<1>1. Init => TypeOK
  BY InitEstablishesCacheInv DEF CacheInv
<1>2. TypeOK /\ [Next]_vars => TypeOK'
  BY CacheStepsKeepTypes
<1> QED
  BY <1>1, <1>2, PTL DEF Spec

(* Once nothing is under way and no timer is set, the gallery shows what   *)
(* the server has: every optimistic removal, rollback and cancelled fetch  *)
(* is followed by a list that makes up for it.                             *)
THEOREM CacheIsRight == Spec => []CacheConverges
<1>1. CacheInv /\ [Next]_vars => CacheInv'
  BY CacheStepsKeepTypes, CacheStepsKeepLists DEF CacheInv
<1>2. CacheInv => CacheConverges
  BY DEF CacheInv, ListsAreUpToDate, IsDeleting, IsUpToDate, CacheConverges, Quiet, InFlight
<1> QED
  BY <1>1, <1>2, InitEstablishesCacheInv, PTL DEF Spec

(* The board does nothing to the cache that the cache's own specification  *)
(* does not allow, so what holds of the cache holds on the board.          *)
THEOREM BoardImplementsCache == BoardSpec => Spec
<1>1. BoardInit => Init
  BY DEF BoardInit
<1>2. [BoardNext]_boardVars => [Next]_vars
  BY DEF BoardNext, CacheStep, UploadPhoto, Succeed, AddFile, RemoveLocalCard,
     RemoveServerCard, Render, boardVars, Next
<1> QED
  BY <1>1, <1>2, PTL DEF BoardSpec, Spec

(* So is the list under the cards of the board.                            *)
THEOREM BoardIsRight == BoardSpec => []CacheConverges
BY CacheIsRight, BoardImplementsCache, PTL

-----------------------------------------------------------------------------
(* The previews. *)

PreviewTypeOK == /\ item \in [Previewable -> {"none", "local", "gone"}]
                 /\ kept \subseteq Previewable
                 /\ \A i \in kept : item[i] = "gone"

(* The effect of the last render keeps what is on its cards. *)
CardsAreTracked == pictured \subseteq tracked /\ tracked \cap revoked = {}

(* What was revoked had been rendered, and its upload is over without its  *)
(* photo keeping the preview: nothing can bring it back to a card.         *)
RevokedPreviewsAreOver ==
  /\ \A i \in tracked : i \in Previewable /\ item[i] # "none"
  /\ \A i \in revoked : i \in Previewable /\ item[i] = "gone" /\ i \notin kept

PreviewInv == PreviewTypeOK /\ CardsAreTracked /\ RevokedPreviewsAreOver

(* A page opens without previews.                                          *)
LEMMA InitEstablishesPreviewInv == BoardInit => PreviewInv
BY DEF BoardInit, PreviewInv, PreviewTypeOK, CardsAreTracked, RevokedPreviewsAreOver

(* What the cache, the server and the render do to previews.               *)
LEMMA BoardStepsKeepPreviewInv ==
  ASSUME PreviewInv, [BoardNext]_boardVars
  PROVE  PreviewInv'
<1> USE DEF PreviewInv, PreviewTypeOK, CardsAreTracked, RevokedPreviewsAreOver
<1>1. CASE UNCHANGED <<uploadVars, effectVars>>
  BY <1>1 DEF uploadVars, effectVars
<1>2. ASSUME NEW i \in Image, Succeed(i)
      PROVE  PreviewInv'
  <2>1. /\ i \in Previewable => item[i] = "local"
        /\ item' = [j \in Previewable |-> IF j = i THEN "gone" ELSE item[j]]
        /\ kept' = kept \cup ({i} \cap Previewable)
        /\ UNCHANGED <<tracked, pictured, revoked>>
    BY <1>2 DEF Succeed, IsHeardOf, HasItem, effectVars
  <2>2. i \notin revoked
    BY <2>1
  <2> QED
    BY <2>1, <2>2
<1>3. ASSUME NEW i \in Previewable, AddFile(i)
      PROVE  PreviewInv'
  BY <1>3 DEF AddFile, effectVars
<1>4. ASSUME NEW i \in Previewable, RemoveLocalCard(i)
      PROVE  PreviewInv'
  BY <1>4 DEF RemoveLocalCard, effectVars
<1>5. ASSUME NEW m \in Mutation, NEW i \in Image, RemoveServerCard(m, i)
      PROVE  PreviewInv'
  BY <1>5 DEF RemoveServerCard, effectVars
<1>6. CASE Render
  <2>1. /\ pictured' = PreviewsOfCards
        /\ tracked' = ObjectUrls
        /\ revoked' = revoked \cup (tracked \ ObjectUrls)
        /\ UNCHANGED <<item, kept>>
    BY <1>6 DEF Render, CleanUp, uploadVars
  <2>2. PreviewsOfCards \subseteq ObjectUrls
    BY DEF PreviewsOfCards, ObjectUrls
  <2>3. ObjectUrls \cap revoked = {}
    BY DEF ObjectUrls, HasItem
  <2>4. CardsAreTracked'
    BY <2>1, <2>2, <2>3
  <2>5. \A i \in tracked' : i \in Previewable /\ item'[i] # "none"
    BY <2>1 DEF ObjectUrls, HasItem
  <2>6. \A i \in revoked' : i \in Previewable /\ item'[i] = "gone" /\ i \notin kept'
    BY <2>1 DEF ObjectUrls, HasItem
  <2> QED
    BY <2>1, <2>4, <2>5, <2>6
<1> QED
  BY <1>1, <1>2, <1>3, <1>4, <1>5, <1>6
     DEF BoardNext, CacheStep, UploadPhoto, boardVars

(* No card shows a preview whose URL was revoked, however uploads, lists,  *)
(* deletes and their rollbacks interleave.                                 *)
THEOREM PicturesStayLive == BoardSpec => []PicturedPreviewsAreLive
<1>1. PreviewInv => PicturedPreviewsAreLive
  BY DEF PreviewInv, CardsAreTracked, PicturedPreviewsAreLive
<1> QED
  BY <1>1, InitEstablishesPreviewInv, BoardStepsKeepPreviewInv, PTL DEF BoardSpec

-----------------------------------------------------------------------------
(* What the page says of the server.                                       *)

(* A list may be behind, but shows no photo that was never uploaded and no *)
(* verdict that was not recorded.                                          *)
IsNotAhead(list) ==
  \A i \in Image : /\ list[i] = "waiting" => server[i] # "absent"
                   /\ list[i] = "settled" => server[i] \in {"settled", "deleted"}

(* So it is with the cards, through optimistic removals, rollbacks to old  *)
(* lists and fetches that are overtaken.                                   *)
CardsAreNotAhead == IsNotAhead(cache)

(* What makes this inductive: nor is a list on its way, one put aside for a*)
(* rollback, or the answer of an upload.                                   *)
NoListIsAhead ==
  /\ IsNotAhead(cache)
  /\ IsNotAhead(fetch.list)
  /\ \A m \in Mutation : IsNotAhead(mutation[m].previous)
  /\ \A i \in uploads : server[i] # "absent"

(* The server only goes on.                                                *)
LEMMA ListsStayBehind ==
  ASSUME TypeOK, [Next]_vars
  PROVE  /\ \A i \in Image : server'[i] = "absent" => server[i] = "absent"
         /\ \A i \in Image : server[i] \in {"settled", "deleted"} =>
                             server'[i] \in {"settled", "deleted"}
         /\ \A list : IsNotAhead(list) => IsNotAhead(list)'
<1>1. \/ server' = server
      \/ \E i \in Image : Upload(i) \/ Verdict(i)
      \/ \E i : server' = [server EXCEPT ![i] = "deleted"]
  BY DEF Next, BackgroundStep, DeleteStep, AnswerFetch, ReceiveList, FetchFails, Refetch,
     Poll, StartFetch, InsertImage, BeginDelete, ServeDelete, DeleteFails, EndDelete, vars
<1>2. /\ \A i \in Image : server'[i] = "absent" => server[i] = "absent"
      /\ \A i \in Image : server[i] \in {"settled", "deleted"} =>
                          server'[i] \in {"settled", "deleted"}
  BY <1>1 DEF Upload, Verdict, TypeOK
<1> QED
  BY <1>2 DEF IsNotAhead

(* Every list comes from the server, or from a list that did.              *)
LEMMA StepsKeepListsBehind ==
  ASSUME TypeOK, NoListIsAhead, [Next]_vars
  PROVE  NoListIsAhead'
<1> USE CacheTypes
<1>0. /\ cache \in List
      /\ mutation \in [Mutation -> MutationState]
      /\ \A list : IsNotAhead(list) => IsNotAhead(list)'
      /\ IsNotAhead(NothingListed)
      /\ IsNotAhead(ServerList)
  BY ListsStayBehind DEF TypeOK, MutationState, IsNotAhead, NothingListed, ServerList
<1>1. \A i \in uploads' : server'[i] # "absent"
  <2>1. uploads' \subseteq uploads \/ \E i \in Image : Upload(i)
    BY DEF Next, BackgroundStep, DeleteStep, AnswerFetch, ReceiveList, FetchFails, Refetch,
       Poll, StartFetch, InsertImage, BeginDelete, ServeDelete, DeleteFails, EndDelete,
       Verdict, vars
  <2> QED
    BY <2>1, ListsStayBehind DEF Upload, TypeOK, NoListIsAhead
<1>2. IsNotAhead(fetch.list)'
  <2>1. fetch' \in {fetch, Sent, Fetch("answered", ServerList),
                    Fetch("idle", NothingListed), Fetch("failed", NothingListed)}
    BY DEF Next, BackgroundStep, DeleteStep, AnswerFetch, ReceiveList, FetchFails, Refetch,
       Poll, StartFetch, InsertImage, BeginDelete, ServeDelete, DeleteFails, EndDelete,
       Upload, Verdict, vars
  <2>2. fetch'.list \in {fetch.list, NothingListed, ServerList}
    BY <2>1 DEF Sent, Fetch
  <2>3. IsNotAhead(fetch'.list)
    BY <1>0, <2>2 DEF NoListIsAhead
  <2> QED
    BY <1>0, <2>3 DEF IsNotAhead
<1>3. IsNotAhead(cache)'
  <2>1. \/ cache' \in {cache, fetch.list}
        \/ \E m \in Mutation : cache' = mutation[m].previous
        \/ \E i \in Image : cache' = removeImage(cache, i)
        \/ \E i \in uploads : cache' = prependImage(cache, i)
    BY DEF Next, BackgroundStep, DeleteStep, AnswerFetch, ReceiveList, FetchFails, Refetch,
       Poll, StartFetch, InsertImage, BeginDelete, ServeDelete, DeleteFails, EndDelete,
       Upload, Verdict, vars
  <2>2. \A i \in Image : IsNotAhead(removeImage(cache, i))
    BY <1>0 DEF removeImage, List, IsNotAhead, NoListIsAhead
  <2>3. \A i \in uploads : IsNotAhead(prependImage(cache, i))
    BY <1>0 DEF prependImage, List, IsNotAhead, NoListIsAhead
  <2>4. IsNotAhead(cache')
    BY <2>1, <2>2, <2>3 DEF NoListIsAhead
  <2> QED
    BY <1>0, <2>4 DEF IsNotAhead
<1>4. ASSUME NEW m \in Mutation
      PROVE  IsNotAhead(mutation[m].previous)'
  <2>1. mutation[m] \in MutationState
    BY <1>0
  <2>2. mutation'[m].previous \in {mutation[m].previous, NothingListed, cache}
    BY <1>0, <2>1 DEF Next, BackgroundStep, DeleteStep, AnswerFetch, ReceiveList, FetchFails,
       Refetch, Poll, StartFetch, InsertImage, BeginDelete, ServeDelete, DeleteFails,
       EndDelete, Upload, Verdict, vars, MutationGoes, NoMutation, MutationState
  <2>3. IsNotAhead(mutation'[m].previous)
    BY <1>0, <2>2 DEF NoListIsAhead
  <2> QED
    BY <1>0, <2>3 DEF IsNotAhead
<1> QED
  BY <1>1, <1>2, <1>3, <1>4 DEF NoListIsAhead

(* A page opens with nothing on it.                                        *)
LEMMA InitEstablishesNoListIsAhead == Init => NoListIsAhead
BY DEF Init, NoListIsAhead, IsNotAhead, Sent, Fetch, NoMutation, NothingListed

LEMMA ListsAreBehind == Spec => []NoListIsAhead
<1>1. Init => NoListIsAhead
  BY InitEstablishesNoListIsAhead
<1>2. TypeOK /\ NoListIsAhead /\ [Next]_vars => NoListIsAhead'
  BY StepsKeepListsBehind
<1> QED
  BY <1>1, <1>2, CacheTypeCorrect, PTL DEF Spec

(* Nothing on the page is made up, whatever rollbacks put back on it.      *)
THEOREM CardsAreTrue == Spec => []CardsAreNotAhead
<1>1. NoListIsAhead => CardsAreNotAhead
  BY DEF NoListIsAhead, CardsAreNotAhead
<1> QED
  BY <1>1, ListsAreBehind, PTL

(* A screen reader hears of a verdict only when the server has recorded    *)
(* one, though the photo may have been deleted since.                      *)
OnlyVerdictsAreAnnounced ==
  \A i \in announced : server[i] \in {"settled", "deleted"}

(* Announcements are made from the lists, and those are true.              *)
THEOREM AnnouncementsAreTrue == BoardSpec => []OnlyVerdictsAreAnnounced
<1> DEFINE Inv == announced \subseteq Image /\ OnlyVerdictsAreAnnounced
<1>1. BoardInit => Inv
  BY DEF BoardInit, OnlyVerdictsAreAnnounced
<1>2. ASSUME Inv, TypeOK, NoListIsAhead, [BoardNext]_boardVars
      PROVE  Inv'
  <2>1. [Next]_vars
    BY <1>2 DEF BoardNext, CacheStep, UploadPhoto, Succeed, AddFile, RemoveLocalCard,
       RemoveServerCard, Render, boardVars, Next
  <2>2. \A i \in Image : server[i] \in {"settled", "deleted"} =>
                         server'[i] \in {"settled", "deleted"}
    BY <1>2, <2>1, ListsStayBehind
  <2>3. \A i \in announced' : i \in announced \/ (i \in Image /\ cache[i] = "settled")
    BY <1>2 DEF BoardNext, CacheStep, UploadPhoto, Succeed, AddFile, RemoveLocalCard,
       RemoveServerCard, Render, Announce, CollectVerdicts, boardVars, effectVars
  <2>4. \A i \in announced' : i \in Image /\ server[i] \in {"settled", "deleted"}
    BY <1>2, <2>3 DEF OnlyVerdictsAreAnnounced, NoListIsAhead, IsNotAhead
  <2> QED
    BY <2>2, <2>4 DEF OnlyVerdictsAreAnnounced
<1> HIDE DEF Inv
<1>3. Inv => OnlyVerdictsAreAnnounced
  BY DEF Inv
<1>4. BoardSpec => []TypeOK /\ []NoListIsAhead
  BY BoardImplementsCache, CacheTypeCorrect, ListsAreBehind, PTL
<1> QED
  BY <1>1, <1>2, <1>3, <1>4, PTL DEF BoardSpec

-----------------------------------------------------------------------------
(* No preview is forgotten.                                                *)

(* A preview is in use, or the next clean-up knows of it, or it is revoked; *)
(* for none is given up before a render has seen it.                       *)
PreviewsAreAccountedFor ==
  /\ \A i \in Previewable : item[i] # "none" => i \in ObjectUrls \cup tracked \cup revoked
  /\ \A i \in Previewable : IsOnPage(i) /\ i \in ObjectUrls => i \in tracked

(* The list of the last render shows only what the server has had.         *)
SnapshotIsNotAhead == \A i \in Image : IsOnPage(i) => server[i] # "absent"

(* Every preview the reducer has let go of, as selectObjectUrls sees it,   *)
(* is revoked by the very next render: the file behind it is freed.        *)
RendersRelease ==
  [][Render => \A i \in Previewable :
       item[i] # "none" /\ i \notin ObjectUrls => i \in revoked']_boardVars

(* No step loses sight of a preview.                                       *)
LEMMA StepsAccountForPreviews ==
  ASSUME PreviewInv, PreviewsAreAccountedFor, SnapshotIsNotAhead, TypeOK, NoListIsAhead,
         [BoardNext]_boardVars
  PROVE  PreviewsAreAccountedFor' /\ SnapshotIsNotAhead'
<1> USE DEF PreviewInv, PreviewTypeOK, CardsAreTracked, IsOnPage
<1>0. /\ Previewable \subseteq Image
      /\ \A i \in Image : server'[i] = "absent" => server[i] = "absent"
  <2>1. [Next]_vars
    BY DEF BoardNext, CacheStep, UploadPhoto, Succeed, AddFile, RemoveLocalCard,
       RemoveServerCard, Render, boardVars, Next
  <2> QED
    BY <2>1, ListsStayBehind, PreviewsAreOfPhotos
<1>1. CASE UNCHANGED <<uploadVars, effectVars>>
  BY <1>0, <1>1 DEF uploadVars, effectVars, PreviewsAreAccountedFor, SnapshotIsNotAhead,
     ObjectUrls, HasItem
<1>2. ASSUME NEW i \in Image, Succeed(i)
      PROVE  PreviewsAreAccountedFor' /\ SnapshotIsNotAhead'
  <2>1. /\ i \in Previewable => item[i] = "local"
        /\ item' = [j \in Previewable |-> IF j = i THEN "gone" ELSE item[j]]
        /\ kept' = kept \cup ({i} \cap Previewable)
        /\ UNCHANGED <<tracked, pictured, revoked, snapshot>>
    BY <1>2 DEF Succeed, IsHeardOf, HasItem, effectVars
  <2>2. ObjectUrls' = ObjectUrls
    BY <2>1 DEF ObjectUrls, HasItem
  <2> QED
    BY <1>0, <2>1, <2>2 DEF PreviewsAreAccountedFor, SnapshotIsNotAhead
<1>3. ASSUME NEW i \in Previewable, AddFile(i)
      PROVE  PreviewsAreAccountedFor' /\ SnapshotIsNotAhead'
  <2>1. ~IsOnPage(i)
    BY <1>0, <1>3 DEF AddFile, SnapshotIsNotAhead
  <2>2. ObjectUrls' = ObjectUrls \cup {i}
    BY <1>3 DEF AddFile, ObjectUrls, HasItem
  <2> QED
    BY <1>0, <1>3, <2>1, <2>2 DEF AddFile, effectVars, PreviewsAreAccountedFor,
       SnapshotIsNotAhead
<1>4. ASSUME NEW i \in Previewable, RemoveLocalCard(i)
      PROVE  PreviewsAreAccountedFor' /\ SnapshotIsNotAhead'
  <2>1. /\ ObjectUrls \subseteq ObjectUrls' \cup {i}
        /\ ObjectUrls' \subseteq ObjectUrls
        /\ i \in tracked
        /\ UNCHANGED <<tracked, revoked, snapshot>>
        /\ \A j \in Previewable : item'[j] # "none" => item[j] # "none"
    BY <1>4 DEF RemoveLocalCard, ObjectUrls, HasItem, effectVars
  <2> QED
    BY <1>0, <2>1 DEF PreviewsAreAccountedFor, SnapshotIsNotAhead
<1>5. ASSUME NEW m \in Mutation, NEW i \in Image, RemoveServerCard(m, i)
      PROVE  PreviewsAreAccountedFor' /\ SnapshotIsNotAhead'
  <2>1. /\ ObjectUrls \subseteq ObjectUrls' \cup {i}
        /\ ObjectUrls' \subseteq ObjectUrls
        /\ IsOnPage(i)
        /\ UNCHANGED <<item, tracked, revoked, snapshot>>
    BY <1>5 DEF RemoveServerCard, ObjectUrls, HasItem, effectVars
  <2> QED
    BY <1>0, <2>1 DEF PreviewsAreAccountedFor, SnapshotIsNotAhead
<1>6. CASE Render
  <2>1. /\ tracked' = ObjectUrls
        /\ revoked' = revoked \cup (tracked \ ObjectUrls)
        /\ ObjectUrls' = ObjectUrls
        /\ UNCHANGED <<item, server>>
        /\ snapshot' \in {snapshot, cache}
    BY <1>6 DEF Render, CleanUp, Announce, uploadVars, vars, ObjectUrls, HasItem
  <2>2. PreviewsAreAccountedFor'
    BY <2>1 DEF PreviewsAreAccountedFor
  <2>3. SnapshotIsNotAhead'
    BY <2>1 DEF SnapshotIsNotAhead, NoListIsAhead, IsNotAhead
  <2> QED
    BY <2>2, <2>3
<1> QED
  BY <1>1, <1>2, <1>3, <1>4, <1>5, <1>6
     DEF BoardNext, CacheStep, UploadPhoto, boardVars

(* The safety half of PreviewsAreReleased.                                 *)
THEOREM NoPreviewIsForgotten == BoardSpec => RendersRelease
<1> DEFINE Inv == PreviewInv /\ PreviewsAreAccountedFor /\ SnapshotIsNotAhead
<1>1. BoardInit => Inv
  <2>1. BoardInit => PreviewsAreAccountedFor /\ SnapshotIsNotAhead
    BY PreviewsAreOfPhotos DEF BoardInit, PreviewsAreAccountedFor, SnapshotIsNotAhead,
       IsOnPage, NoSnapshot
  <2> QED
    BY <2>1, InitEstablishesPreviewInv
<1>2. Inv /\ TypeOK /\ NoListIsAhead /\ [BoardNext]_boardVars => Inv'
  BY StepsAccountForPreviews, BoardStepsKeepPreviewInv
<1>3. Inv /\ [BoardNext]_boardVars =>
        [Render => \A i \in Previewable :
           item[i] # "none" /\ i \notin ObjectUrls => i \in revoked']_boardVars
  BY DEF Render, CleanUp, PreviewsAreAccountedFor
<1>4. BoardSpec => []TypeOK /\ []NoListIsAhead
  BY BoardImplementsCache, CacheTypeCorrect, ListsAreBehind, PTL
<1> HIDE DEF Inv
<1> QED
  BY <1>1, <1>2, <1>3, <1>4, PTL DEF BoardSpec, RendersRelease
=============================================================================
