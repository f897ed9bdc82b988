--------------------------- MODULE MemberRegistry ---------------------------
(***************************************************************************)
(* What the group contract promises about membership, without trees, maps  *)
(* or snapshots: a registry of numbered places.  A member has one place or *)
(* none; a place is given to a newcomer once and never again, though its   *)
(* holder may leave it or hand it to somebody who has none.                *)
(***************************************************************************)
CONSTANTS
  Members,  (* who can be enrolled                                         *)
  Places,   (* the places there are                                        *)
  Nowhere   (* where a member is who has no place: none of the Places      *)

VARIABLES
  home,     (* the place of each member, or Nowhere                        *)
  used      (* the places ever given out                                   *)

Init ==
  /\ home = [m \in Members |-> Nowhere]
  /\ used = {}

Enrol(m, place) ==
  /\ home[m] = Nowhere
  /\ place \notin used
  /\ home' = [home EXCEPT ![m] = place]
  /\ used' = used \cup {place}

Withdraw(m) ==
  /\ home[m] # Nowhere
  /\ home' = [home EXCEPT ![m] = Nowhere]
  /\ UNCHANGED used

Substitute(old, new) ==
  /\ home[old] # Nowhere
  /\ home[new] = Nowhere
  /\ home' = [home EXCEPT ![old] = Nowhere, ![new] = home[old]]
  /\ UNCHANGED used

Next ==
  \/ \E m \in Members, place \in Places : Enrol(m, place)
  \/ \E m \in Members : Withdraw(m)
  \/ \E old, new \in Members : Substitute(old, new)

Spec == Init /\ [][Next]_<<home, used>>

-----------------------------------------------------------------------------
(* Places are given to the members that hold them, never two to a place.   *)
OnePlacePerMember ==
  /\ home \in [Members -> used \cup {Nowhere}]
  /\ used \subseteq Places
  /\ \A m1, m2 \in Members : home[m1] = home[m2] /\ home[m1] # Nowhere => m1 = m2
=============================================================================
