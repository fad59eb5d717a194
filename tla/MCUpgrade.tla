------------------------------ MODULE MCUpgrade ------------------------------
(***************************************************************************)
(* Instances of Upgrade for TLC.  Two facets F and G on two proxies: the   *)
(* first proxy takes both, the second only F.                              *)
(*                                                                         *)
(*   v1  F serves s1, s2; G serves s3; selectors() is generated            *)
(*   v2  F recompiled, without s2, which moved to G: moved on the first    *)
(*       proxy, dropped on the second                                      *)
(*   v3  F as at v1; G gone; s3 dropped from the first proxy               *)
(*   v4  F implements selectors() itself and s1; G is byte for byte F      *)
(*   v5  F and G differ and both claim s1                                  *)
(*   v6  F as at v1; G has no functions left                               *)
(***************************************************************************)
EXTENDS UpgradeInvariant, CheckLedger

CONSTANTS F, G, s1, s2, s3, v1, v2, v3, v4, v5, v6

MCSelectors == {s1, s2, s3, SELECTORS_SELECTOR}
MCFacets == {F, G}
MCInitcodes == {"F1", "F2", "F4", "G1", "G2"}

MCFacetSrc ==
  [c \in Commits |-> [p \in Proxies |-> IF p = 1 /\ c # v3 THEN <<F, G>> ELSE <<F>>]]

MCFacetSelectors ==
  [c \in Commits |->
     IF c = v4 THEN [f \in Facets |-> {s1, SELECTORS_SELECTOR}]
     ELSE [f \in Facets |->
             IF f = F THEN IF c \in {v2, v5} THEN {s1} ELSE {s1, s2}
             ELSE CASE c = v2 -> {s2, s3} [] c = v5 -> {s1, s3} [] c = v6 -> {} [] OTHER -> {s3}]]

MCFacetInitcode ==
  [c \in Commits |-> [p \in Proxies |->
     IF c = v4 THEN [f \in Facets |-> "F4"]
     ELSE [f \in Facets |->
             IF f = F THEN IF c \in {v2, v5} THEN "F2" ELSE "F1"
             ELSE IF c \in {v2, v5} THEN "G2" ELSE "G1"]]]

(* G's constructor keeps an immutable and does not rebuild it when run     *)
(* again; F4's keeps one, and does; F2's does neither.                     *)
MCReadsEnvironment == {"F4", "G1", "G2"}
MCFragile == {"G1", "F2"}

(* Slot detection finds every slot, or takes s1's and s3's for one another, *)
(* or sees s3 at the slot of selectors(), or finds none for s2.             *)
MCDetections ==
  { OwnSlots,
    [OwnSlots EXCEPT ![s1] = s3, ![s3] = s1],
    [OwnSlots EXCEPT ![s3] = SELECTORS_SELECTOR],
    [OwnSlots EXCEPT ![s2] = NoSlot] }
=============================================================================
