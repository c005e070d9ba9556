--------------------------- MODULE BrowserSession ---------------------------
(***************************************************************************)
(* How a browser comes by its anonymous session, on which the web client's *)
(* queue (UploadQueue) and the API (ImagesApi) have to agree: a browser    *)
(* without a session cookie waits for one upload at a time, so that one    *)
(* answer makes it somebody; from then on it stays the same user, however  *)
(* many uploads it sends at once.  An upload that is begun beside another  *)
(* all the same is a stray, and only strays can change who the browser is. *)
(***************************************************************************)
CONSTANT NoUser

VARIABLES
  cookie,   (* the user in the cookie, known by the upload that made it    *)
  open,     (* the uploads the browser waits for                           *)
  strays    (* history: those that should have waited for another          *)

vars == <<cookie, open, strays>>

Init == /\ cookie = NoUser
        /\ open = {}
        /\ strays = {}

(* One or, with a session, several. *)
Begin == /\ open \subseteq open'
         /\ \E s \in SUBSET (open' \ open) : strays' = strays \cup s
         /\ cookie = NoUser => \A r, s \in open' \ strays' : r = s
         /\ UNCHANGED cookie

(* Answered without a Set-Cookie header, lost or aborted. *)
End(r) == /\ r \in open
          /\ open' = open \ {r}
          /\ UNCHANGED <<cookie, strays>>

(* Answered with one: ensureUserId made a user for it. *)
Identify(r) == /\ r \in open
               /\ cookie = NoUser \/ cookie \in strays \/ r \in strays
               /\ cookie' = r
               /\ open' = open \ {r}
               /\ UNCHANGED strays

Next == \/ Begin
        \/ \E r \in open : End(r) \/ Identify(r)

Spec == Init /\ [][Next]_vars
=============================================================================
