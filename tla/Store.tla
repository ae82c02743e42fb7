-------------------------------- MODULE Store --------------------------------
(***************************************************************************)
(* The directory's store behind its HTTP API.  A behaviour is about one of  *)
(* its parts: one request to a view (Views), requests on a profile, its     *)
(* display and its sources (ProfileStore), or on favorites (Favorites).     *)
(* They share no state, so the parts run apart.                            *)
(***************************************************************************)
EXTENDS Views, ProfileStore, Favorites

VARIABLE part

vars == <<part, viewsVars, storeVars, favoriteVars>>

Init ==
  /\ part \in {"views", "profiles", "favorites"}
  /\ ViewsInit /\ (part = "views" \/ view = CHOOSE v \in AllViews : TRUE)
  /\ StoreInit
  /\ part = "profiles" \/ (named = There /\ body = [r \in Requests |-> CHOOSE b \in Bodies : TRUE] /\ there = FirstRows)
  /\ FavoritesInit
  /\ part = "favorites" \/
       (ask = [r \in Clients |-> CHOOSE a \in Asks : a.kind = "add"] /\ favorites = {})

AnswerView == part = "views" /\ ViewsNext /\ UNCHANGED <<part, storeVars, favoriteVars>>
ChangeProfiles == part = "profiles" /\ StoreNext /\ UNCHANGED <<part, viewsVars, favoriteVars>>
ChangeFavorites == part = "favorites" /\ FavoritesNext /\ UNCHANGED <<part, viewsVars, storeVars>>

Next == AnswerView \/ ChangeProfiles \/ ChangeFavorites

Spec == Init /\ [][Next]_vars
FairSpec == Spec /\ StoreFairness /\ FavoritesFairness

(* A request that was begun is answered.                                   *)
RequestsEnd == EveryoneIsAnswered /\ ListsAreAnswered
=============================================================================
