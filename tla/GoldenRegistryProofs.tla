------------------------ MODULE GoldenRegistryProofs ------------------------
(***************************************************************************)
(* The registry keeps its promise for every set of digests, images and     *)
(* runs: whatever implements RegistrySpec has RegistryInv.                 *)
(***************************************************************************)
EXTENDS GoldenRegistry, TLAPS

\* An image that is published for the first time is under no other digest:
\* that is where "at most once" is needed.
LEMMA PublishKeeps ==
  ASSUME None \notin Images, RegistryInv, NEW d \in Digests, NEW i \in Images, Publish(d, i)
  PROVE  RegistryInv'
<1> USE DEF RegistryInv, Publish
<1>1. /\ made' \subseteq Images
      /\ published' \subseteq made'
      /\ booted' \in [Runs -> published' \cup {None}]
  OBVIOUS
<1>2. reg' \in [Digests -> published' \cup {None}]
  OBVIOUS
<1>3. ASSUME NEW c \in Digests, NEW e \in Digests, reg'[c] = reg'[e], reg'[c] # None
      PROVE  c = e
  <2>1. \A x \in Digests : reg'[x] = IF x = d THEN i ELSE reg[x]
    OBVIOUS
  <2>2. \A x \in Digests : reg[x] # i
    OBVIOUS
  <2> QED BY <1>3, <2>1, <2>2
<1> QED BY <1>1, <1>2, <1>3

LEMMA RegistryStep ==
  ASSUME None \notin Images, RegistryInv, [RegistryNext]_regVars
  PROVE  RegistryInv'
<1>1. CASE \E i \in Images : Make(i)
  BY <1>1 DEF RegistryInv, Make
<1>2. CASE \E d \in Digests : \E i \in Images : Publish(d, i)
  BY <1>2, PublishKeeps
<1>3. CASE \E d \in Digests : Remove(d)
  BY <1>3 DEF RegistryInv, Remove
<1>4. CASE \E x \in Runs : Close(x)
  BY <1>4 DEF RegistryInv, Close
<1>5. CASE \E x \in Runs : \E d \in Digests : BootFrom(x, d)
  BY <1>5 DEF RegistryInv, BootFrom
<1>6. CASE UNCHANGED regVars
  BY <1>6 DEF RegistryInv, regVars
<1> QED
  BY <1>1, <1>2, <1>3, <1>4, <1>5, <1>6 DEF RegistryNext

\* Every registered or booted image was made and published, and no image is
\* under two digests.
THEOREM RegistryKeepsItsPromise ==
  ASSUME None \notin Images PROVE RegistrySpec => []RegistryInv
<1>1. RegistryInit => RegistryInv
  BY DEF RegistryInit, RegistryInv
<1>2. RegistryInv /\ [RegistryNext]_regVars => RegistryInv'
  BY RegistryStep
<1> QED
  BY <1>1, <1>2, PTL DEF RegistrySpec
=============================================================================
