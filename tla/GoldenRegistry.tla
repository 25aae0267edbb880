--------------------------- MODULE GoldenRegistry ---------------------------
(***************************************************************************)
(* What $CACHE/images promises the commands that use it: a registry from   *)
(* recipe digests to images.  An image is published whole and at most      *)
(* once, under one digest; it may be replaced or removed but never changes *)
(* hands; a run boots an image that is registered at that moment.          *)
(*                                                                         *)
(* GoldenStore, where publishing is nine file operations of a build among  *)
(* other commands, implements this specification.                          *)
(***************************************************************************)
EXTENDS Naturals

CONSTANTS Digests, Images, Runs, None

VARIABLES
  made,       \* images of guests that were set up and shut down
  published,  \* images that were ever registered
  reg,        \* reg[d]: the image under digest d
  booted      \* booted[x]: the image run x has open

regVars == <<made, published, reg, booted>>

RegistryInit ==
  /\ made = {}
  /\ published = {}
  /\ reg = [d \in Digests |-> None]
  /\ booted = [x \in Runs |-> None]

Make(i) ==
  /\ made' = made \cup {i}
  /\ UNCHANGED <<published, reg, booted>>

Publish(d, i) ==
  /\ i \in made \ published
  /\ reg' = [reg EXCEPT ![d] = i]
  /\ published' = published \cup {i}
  /\ UNCHANGED <<made, booted>>

Remove(d) ==
  /\ reg' = [reg EXCEPT ![d] = None]
  /\ UNCHANGED <<made, published, booted>>

BootFrom(x, d) ==
  /\ booted[x] = None
  /\ reg[d] # None
  /\ booted' = [booted EXCEPT ![x] = reg[d]]
  /\ UNCHANGED <<made, published, reg>>

Close(x) ==
  /\ booted' = [booted EXCEPT ![x] = None]
  /\ UNCHANGED <<made, published, reg>>

RegistryNext ==
  \/ \E i \in Images : Make(i)
  \/ \E d \in Digests : Remove(d) \/ \E i \in Images : Publish(d, i)
  \/ \E x \in Runs : Close(x) \/ \E d \in Digests : BootFrom(x, d)

RegistrySpec == RegistryInit /\ [][RegistryNext]_regVars

-----------------------------------------------------------------------------
\* Every image in the registry was made and published, and none is under two
\* digests: what RegistrySpec is for, whatever implements it.
RegistryInv ==
  /\ made \subseteq Images
  /\ published \subseteq made
  /\ reg \in [Digests -> published \cup {None}]
  /\ booted \in [Runs -> published \cup {None}]
  /\ \A d, e \in Digests : reg[d] = reg[e] /\ reg[d] # None => d = e
=============================================================================
