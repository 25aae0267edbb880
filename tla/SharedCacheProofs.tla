------------------------- MODULE SharedCacheProofs -------------------------
(***************************************************************************)
(* The safety properties of SharedCache hold for any number of commands,   *)
(* of seconds in which they start, of SIGINTs and of prunes.               *)
(*                                                                         *)
(* IInv is inductive.  What a step does to the records of the commands is  *)
(* one lemma per group of actions; the conjuncts of IInv follow from those *)
(* and from what the step does to the files.                               *)
(***************************************************************************)
EXTENDS SharedCache, FiniteSetTheorems, TLAPS

-----------------------------------------------------------------------------
(* Records *)

Records == [Commands -> CommandRecord]

\* The step leaves q's record alone, but may set the history `crossed`.
Keeps(q) ==
  /\ c'[q].pc = c[q].pc /\ c'[q].kind = c[q].kind /\ c'[q].at = c[q].at
  /\ c'[q].key = c[q].key /\ c'[q].ready = c[q].ready
  /\ c'[q].image = c[q].image
  /\ c[q].crossed => c'[q].crossed

Others(p) == c' \in Records /\ \A q \in Commands : q # p => Keeps(q)

\* p goes to the place l; it may become ready.
Goes(p, l) ==
  /\ Others(p)
  /\ c'[p].pc = l /\ c'[p].kind = c[p].kind /\ c'[p].at = c[p].at
  /\ c'[p].key = c[p].key
  /\ c'[p].image = c[p].image /\ c'[p].crossed = c[p].crossed
  /\ c[p].ready => c'[p].ready

\* The step tells those who have checked a source image that it changed one.
Marks(p) == \A q \in Commands :
  q # p /\ c[q].pc \in {"rename", "source"} => c'[q].crossed

\* Crossing changes nothing but the history `crossed` of other commands.
LEMMA CrossingKeeps ==
  ASSUME NEW p \in Commands, NEW cc \in Records
  PROVE  /\ Crossing(p, cc) \in Records
         /\ Crossing(p, cc)[p] = cc[p]
         /\ \A q \in Commands :
              /\ Crossing(p, cc)[q].pc = cc[q].pc
              /\ Crossing(p, cc)[q].kind = cc[q].kind
              /\ Crossing(p, cc)[q].at = cc[q].at
              /\ Crossing(p, cc)[q].key = cc[q].key
              /\ Crossing(p, cc)[q].ready = cc[q].ready
              /\ Crossing(p, cc)[q].image = cc[q].image
<1> DEFINE x(r) == [r EXCEPT !.crossed = TRUE]
<1>1. \A q \in Commands : cc[q] \in CommandRecord
  BY DEF Records
<1>2. ASSUME NEW r \in CommandRecord
      PROVE  /\ x(r) \in CommandRecord
             /\ x(r).pc = r.pc /\ x(r).kind = r.kind /\ x(r).at = r.at
             /\ x(r).key = r.key /\ x(r).ready = r.ready
             /\ x(r).image = r.image
  BY DEF CommandRecord
<1>3. Crossing(p, cc)
           = [q \in Commands |-> IF q # p /\ cc[q].pc \in {"rename", "source"}
                                 THEN x(cc[q]) ELSE cc[q]]
  BY DEF Crossing
<1> HIDE DEF x
<1>4. \A q \in Commands : Crossing(p, cc)[q] \in {cc[q], x(cc[q])}
  BY <1>3
<1>5. Crossing(p, cc) \in Records
  BY <1>1, <1>2, <1>3 DEF Records
<1>6. Crossing(p, cc)[p] = cc[p]
  BY <1>3
<1> QED BY <1>1, <1>2, <1>4, <1>5, <1>6

LEMMA CrossingMarks ==
  ASSUME NEW p \in Commands, NEW cc \in Records, NEW q \in Commands
  PROVE  /\ cc[q].crossed => Crossing(p, cc)[q].crossed
         /\ q # p /\ cc[q].pc \in {"rename", "source"} => Crossing(p, cc)[q].crossed
<1> DEFINE marked == q # p /\ cc[q].pc \in {"rename", "source"}
<1>1. cc[q] \in CommandRecord
  BY DEF Records
<1>2. Crossing(p, cc)[q] = IF marked THEN [cc[q] EXCEPT !.crossed = TRUE] ELSE cc[q]
  BY DEF Crossing
<1>3. ASSUME NEW r \in CommandRecord
      PROVE  [r EXCEPT !.crossed = TRUE].crossed = TRUE
  BY DEF CommandRecord
<1>4. CASE marked
  <2>1. Crossing(p, cc)[q].crossed = TRUE
    BY <1>1, <1>2, <1>3, <1>4
  <2> QED BY <2>1, Zenon
<1>5. CASE ~marked
  <2>1. Crossing(p, cc)[q] = cc[q]
    BY <1>2, <1>5
  <2> QED BY <1>5, <2>1
<1> QED BY <1>4, <1>5

\* A new record for p, and perhaps Crossing.
LEMMA Becomes ==
  ASSUME c \in Records, NEW p \in Commands, NEW r \in CommandRecord,
         NEW cc, cc = [c EXCEPT ![p] = r],
         c' = cc \/ c' = Crossing(p, cc)
  PROVE  /\ Others(p) /\ c'[p] = r
         /\ c' = Crossing(p, cc) => Marks(p)
<1>1. cc \in Records /\ cc[p] = r /\ \A q \in Commands : q # p => cc[q] = c[q]
  BY DEF Records
<1>2. ASSUME c' = Crossing(p, cc)
      PROVE  Others(p) /\ c'[p] = r /\ Marks(p)
  <2>1. c' \in Records /\ c'[p] = r
    BY <1>1, <1>2, CrossingKeeps
  <2>2. ASSUME NEW q \in Commands, q # p
        PROVE  Keeps(q) /\ (c[q].pc \in {"rename", "source"} => c'[q].crossed)
    <3>1. cc[q] = c[q]
      BY <1>1, <2>2
    <3>2. \A x \in Commands :
            /\ Crossing(p, cc)[x].pc = cc[x].pc
            /\ Crossing(p, cc)[x].kind = cc[x].kind
            /\ Crossing(p, cc)[x].at = cc[x].at
            /\ Crossing(p, cc)[x].key = cc[x].key
            /\ Crossing(p, cc)[x].ready = cc[x].ready
            /\ Crossing(p, cc)[x].image = cc[x].image
      BY <1>1, CrossingKeeps
    <3>5. \A x \in Commands :
            /\ cc[x].crossed => Crossing(p, cc)[x].crossed
            /\ x # p /\ cc[x].pc \in {"rename", "source"} => Crossing(p, cc)[x].crossed
      BY <1>1, CrossingMarks, Zenon
    <3> DEFINE d == Crossing(p, cc)
    <3>3. /\ d[q].pc = cc[q].pc /\ d[q].kind = cc[q].kind /\ d[q].at = cc[q].at
          /\ d[q].key = cc[q].key /\ d[q].ready = cc[q].ready
          /\ d[q].image = cc[q].image
          /\ cc[q].crossed => d[q].crossed
          /\ cc[q].pc \in {"rename", "source"} => d[q].crossed
      BY <2>2, <3>2, <3>5
    <3> HIDE DEF d
    <3>4. c' = d
      BY <1>2 DEF d
    <3> QED BY <3>1, <3>3, <3>4 DEF Keeps
  <2> QED BY <2>1, <2>2 DEF Others, Marks
<1>3. CASE c' = cc
  <2>1. Others(p) /\ c'[p] = r
    BY <1>1, <1>3 DEF Others, Keeps
  <2> QED BY <1>2, <2>1
<1> QED BY <1>2, <1>3

\* A step to another place.
LEMMA ToKeeps ==
  ASSUME c \in Records, NEW p \in Commands, NEW l \in Places,
         To(p, l) \/ ToCrossing(p, l)
  PROVE  /\ Goes(p, l) /\ c'[p].ready = c[p].ready
         /\ ToCrossing(p, l) => Marks(p)
<1> DEFINE r == [c[p] EXCEPT !.pc = l]
           cc == [c EXCEPT ![p] = r]
<1>1. c[p] \in CommandRecord
  BY DEF Records
<1>2. /\ r \in CommandRecord /\ r.pc = l
      /\ r.kind = c[p].kind /\ r.at = c[p].at /\ r.key = c[p].key
      /\ r.ready = c[p].ready /\ r.image = c[p].image /\ r.crossed = c[p].crossed
  BY <1>1 DEF CommandRecord
<1>3. [c EXCEPT ![p].pc = l] = cc
  BY DEF Records
<1>4. /\ c' = cc \/ c' = Crossing(p, cc)
      /\ ToCrossing(p, l) => c' = Crossing(p, cc)
  BY <1>3 DEF To, ToCrossing
<1> HIDE DEF r
<1>5. Others(p) /\ c'[p] = r /\ (ToCrossing(p, l) => Marks(p))
  <2> HIDE DEF cc
  <2>1. cc = [c EXCEPT ![p] = r]
    BY DEF cc
  <2> QED BY <1>2, <1>4, <2>1, Becomes
<1> QED BY <1>2, <1>5 DEF Goes

\* The actions that only go to another place, as far as IInv can tell.
LEMMA Moves ==
  ASSUME c \in Records, NEW p \in Commands
  PROVE  /\ Raise(p) => Goes(p, "done")
         /\ CheckHost(p) => Goes(p, "key") \/ Goes(p, "done")
         /\ EnsureKey(p) => Goes(p, AfterKey(p)) \/ Goes(p, "keygen")
         /\ KeygenLook(p) => Goes(p, "keypriv") \/ Goes(p, "done")
         /\ KeygenPrivate(p) => Goes(p, "keypub")
         /\ KeygenPublic(p) => Goes(p, AfterKey(p))
         /\ LookForSource(p) =>
              \E l \in {"source", "open", "clear", "stale"} : Goes(p, l)
         /\ RemoveStale(p) => Goes(p, "clear")
         /\ ClearPartial(p) => Goes(p, "open")
         /\ HashPartial(p) => Goes(p, "rename") \/ Goes(p, "done")
         /\ RenamePartial(p) => Goes(p, "source") \/ Goes(p, "done")
         /\ Settle(p) => Goes(p, "done") \/ Goes(p, "boot")
         /\ WaitForQemu(p) =>
              \/ Goes(p, "done")
              \/ Goes(p, "finish") /\ c[p].kind # "image-build"
              \/ Goes(p, "unlink") /\ c[p].kind = "image-build" /\ vm[p] = None
         /\ UnlinkGolden(p) => Goes(p, "move")
         /\ Finish(p) => Goes(p, "done")
<1>1. \A l \in Places : To(p, l) \/ ToCrossing(p, l) => Goes(p, l)
  BY ToKeeps
<1>2. {"done", "key", "keygen", "mkdir", "keypriv", "keypub", "source", "open",
        "clear", "stale", "rename", "boot", "finish", "unlink", "move"} \subseteq Places
  BY DEF Places, Fallible
<1>3. AfterKey(p) \in {"done", "mkdir"}
  BY DEF AfterKey
<1>4. Raise(p) => Goes(p, "done")
  BY <1>1, <1>2 DEF Raise
<1>5. CheckHost(p) => Goes(p, "key") \/ Goes(p, "done")
  BY <1>1, <1>2, <1>4 DEF CheckHost
<1>6. EnsureKey(p) => Goes(p, AfterKey(p)) \/ Goes(p, "keygen")
  BY <1>1, <1>2, <1>3 DEF EnsureKey
<1>7. KeygenLook(p) => Goes(p, "keypriv") \/ Goes(p, "done")
  BY <1>1, <1>2, <1>4 DEF KeygenLook
<1>8. KeygenPrivate(p) => Goes(p, "keypub")
  BY <1>1, <1>2 DEF KeygenPrivate
<1>9. KeygenPublic(p) => Goes(p, AfterKey(p))
  BY <1>1, <1>2, <1>3 DEF KeygenPublic
<1>10. LookForSource(p) =>
         \E l \in {"source", "open", "clear", "stale"} : Goes(p, l)
  BY <1>1, <1>2 DEF LookForSource
<1>11. RemoveStale(p) => Goes(p, "clear")
  BY <1>1, <1>2 DEF RemoveStale
<1>12. ClearPartial(p) => Goes(p, "open")
  BY <1>1, <1>2 DEF ClearPartial
<1>13. HashPartial(p) => Goes(p, "rename") \/ Goes(p, "done")
  BY <1>1, <1>2 DEF HashPartial
<1>14. RenamePartial(p) => Goes(p, "source") \/ Goes(p, "done")
  BY <1>1, <1>2, <1>4 DEF RenamePartial
<1>15. Settle(p) => Goes(p, "done") \/ Goes(p, "boot")
  BY <1>1, <1>2, <1>4 DEF Settle
<1>16. WaitForQemu(p) =>
         \/ Goes(p, "done")
         \/ Goes(p, "finish") /\ c[p].kind # "image-build"
         \/ Goes(p, "unlink") /\ c[p].kind = "image-build" /\ vm[p] = None
  BY <1>1, <1>2, <1>4 DEF WaitForQemu
<1>17. UnlinkGolden(p) => Goes(p, "move")
  BY <1>1, <1>2 DEF UnlinkGolden
<1>18. Finish(p) => Goes(p, "done")
  BY <1>1, <1>2 DEF Finish
<1> QED BY <1>4, <1>5, <1>6, <1>7, <1>8, <1>9, <1>10, <1>11, <1>12, <1>13, <1>14,
           <1>15, <1>16, <1>17, <1>18

LEMMA ContentImage ==
  ASSUME TypeOK, NEW i \in Inodes \cup {None}
  PROVE  Content(i) \in Image
<1>1. CASE i # None /\ data[i].whole /\ Cardinality(data[i].mix) = 1
  <2>1. data[i].mix \subseteq Sources
    BY <1>1 DEF TypeOK
  <2>2. IsFiniteSet(Sources)
    <3>1. IsFiniteSet({"pinned"})
      BY FS_Singleton
    <3>2. Sources = {"pinned"} \cup {"current"}
      BY DEF Sources
    <3> QED BY <3>1, <3>2, FS_AddElement
  <2>3. PICK x : data[i].mix = {x}
    BY <1>1, <2>1, <2>2, FS_Subset, FS_Singleton
  <2>4. Content(i) = CHOOSE s \in Sources : s \in data[i].mix
    BY <1>1 DEF Content
  <2>5. \E s \in Sources : s \in data[i].mix
    BY <2>1, <2>3
  <2> QED BY <2>4, <2>5 DEF Image
<1>2. CASE ~(i # None /\ data[i].whole /\ Cardinality(data[i].mix) = 1)
  BY <1>2 DEF Content, Image
<1> QED BY <1>1, <1>2

\* The actions that change more of the record.
LEMMA Changes ==
  ASSUME TypeOK, NEW p \in Commands
  PROVE  /\ OpenPartial(p) => Goes(p, "curl") /\ Marks(p)
         /\ EndCurl(p) => Goes(p, IF c[p].kind = "spike" THEN "rename" ELSE "hash")
         /\ Boot(p) =>
              \/ Goes(p, "done")
              \/ Goes(p, "wait") /\ c'[p].ready
         /\ ReadPublicKey(p) =>
              \/ Goes(p, "done")
              \/ /\ pub # None /\ Others(p)
                 /\ c'[p].pc = IF c[p].kind = "spike" THEN "look" ELSE "spawn"
                 /\ c'[p].kind = c[p].kind /\ c'[p].at = c[p].at
                 /\ c'[p].key = pub
                 /\ c'[p].image = c[p].image /\ c'[p].crossed = c[p].crossed
         /\ MakeDisk(p) =>
              \/ Goes(p, "done") /\ disk' = disk
              \/ /\ disk' = [disk EXCEPT ![DiskPath(p)] = p] /\ Others(p)
                 /\ c'[p].pc = IF c[p].kind = "image-build" THEN "seed" ELSE "spawn"
                 /\ c'[p].kind = c[p].kind /\ c'[p].at = c[p].at
                 /\ c'[p].crossed = c[p].crossed
                 /\ c[p].kind = "image-build" =>
                      c'[p].key = c[p].key /\ c'[p].image = Content(blob)
         /\ MakeRunDir(p) =>
              /\ Others(p) /\ c'[p].at \in Stamps /\ c'[p].kind = c[p].kind
              /\ c'[p].key = c[p].key
              /\ c'[p].pc = AfterMkdir[c[p].kind]
         /\ Start(p) =>
              /\ Others(p) /\ c'[p].at = NoStamp /\ c'[p].kind \in Kinds
              /\ c'[p].key = None
              /\ c'[p].pc \in {"host", "done"}
<1>1. c \in Records /\ c[p] \in CommandRecord
  BY DEF TypeOK, Records
<1>2. ASSUME NEW r \in CommandRecord,
             c' = [c EXCEPT ![p] = r] \/ c' = Crossing(p, [c EXCEPT ![p] = r])
      PROVE  /\ Others(p) /\ c'[p] = r
             /\ c' = Crossing(p, [c EXCEPT ![p] = r]) => Marks(p)
  BY <1>1, <1>2, Becomes
<1>3. OpenPartial(p) => Goes(p, "curl") /\ Marks(p)
  <2> SUFFICES ASSUME OpenPartial(p) PROVE Goes(p, "curl") /\ Marks(p)
    OBVIOUS
  <2> DEFINE i == IF partial = None THEN p ELSE partial
             r == [c[p] EXCEPT !.pc = "curl", !.fd = i]
  <2>1. i \in Inodes
    BY DEF TypeOK, Inodes
  <2>2. c' = Crossing(p, [c EXCEPT ![p] = r])
    BY <1>1 DEF OpenPartial, Records
  <2> HIDE DEF i
  <2>3. /\ r \in CommandRecord /\ r.pc = "curl" /\ r.kind = c[p].kind
        /\ r.at = c[p].at /\ r.key = c[p].key /\ r.ready = c[p].ready
        /\ r.image = c[p].image /\ r.crossed = c[p].crossed
    BY <1>1, <2>1 DEF CommandRecord, Places, Fallible
  <2> HIDE DEF r
  <2> QED BY <1>2, <2>2, <2>3 DEF Goes
<1>4. EndCurl(p) => Goes(p, IF c[p].kind = "spike" THEN "rename" ELSE "hash")
  <2> SUFFICES ASSUME EndCurl(p)
               PROVE  Goes(p, IF c[p].kind = "spike" THEN "rename" ELSE "hash")
    OBVIOUS
  <2> DEFINE l == IF c[p].kind = "spike" THEN "rename" ELSE "hash"
             r == [c[p] EXCEPT !.fd = None, !.pc = l]
  <2>1. l \in Places
    BY DEF Places, Fallible
  <2>2. c' = [c EXCEPT ![p] = r]
    BY <1>1 DEF EndCurl, Records
  <2> HIDE DEF l
  <2>3. /\ r \in CommandRecord /\ r.pc = l /\ r.kind = c[p].kind
        /\ r.at = c[p].at /\ r.key = c[p].key /\ r.ready = c[p].ready
        /\ r.image = c[p].image /\ r.crossed = c[p].crossed
    BY <1>1, <2>1 DEF CommandRecord
  <2> HIDE DEF r
  <2>4. Goes(p, l)
    BY <1>2, <2>2, <2>3 DEF Goes
  <2> QED BY <2>4 DEF l
<1>5. Boot(p) => Goes(p, "done") \/ (Goes(p, "wait") /\ c'[p].ready)
  <2> SUFFICES ASSUME Boot(p), ~Goes(p, "done")
               PROVE  Goes(p, "wait") /\ c'[p].ready
    OBVIOUS
  <2> DEFINE r == [c[p] EXCEPT !.pc = "wait", !.ready = TRUE]
  <2>1. c' = [c EXCEPT ![p] = r]
    BY <1>1, Moves DEF Boot, Records
  <2>2. /\ r \in CommandRecord /\ r.pc = "wait" /\ r.kind = c[p].kind
        /\ r.at = c[p].at /\ r.key = c[p].key /\ r.ready = TRUE
        /\ r.image = c[p].image /\ r.crossed = c[p].crossed
    BY <1>1 DEF CommandRecord, Places, Fallible
  <2> HIDE DEF r
  <2> QED BY <1>2, <2>1, <2>2 DEF Goes
<1>6. ReadPublicKey(p) =>
        \/ Goes(p, "done")
        \/ /\ pub # None /\ Others(p)
           /\ c'[p].pc = IF c[p].kind = "spike" THEN "look" ELSE "spawn"
           /\ c'[p].kind = c[p].kind /\ c'[p].at = c[p].at
           /\ c'[p].key = pub
           /\ c'[p].image = c[p].image /\ c'[p].crossed = c[p].crossed
  <2> SUFFICES ASSUME ReadPublicKey(p), pub # None
               PROVE  /\ Others(p)
                      /\ c'[p].pc = IF c[p].kind = "spike" THEN "look" ELSE "spawn"
                      /\ c'[p].kind = c[p].kind /\ c'[p].at = c[p].at
                      /\ c'[p].key = pub
                      /\ c'[p].image = c[p].image /\ c'[p].crossed = c[p].crossed
    BY <1>1, Moves DEF ReadPublicKey
  <2> DEFINE l == IF c[p].kind = "spike" THEN "look" ELSE "spawn"
             r == [c[p] EXCEPT !.key = pub, !.pc = l]
  <2>1. l \in Places /\ pub \in Command
    BY DEF Places, Fallible, TypeOK
  <2>2. c' = [c EXCEPT ![p] = r]
    BY <1>1 DEF ReadPublicKey, Records
  <2> HIDE DEF l
  <2>3. /\ r \in CommandRecord /\ r.pc = l /\ r.kind = c[p].kind
        /\ r.at = c[p].at /\ r.key = pub
        /\ r.image = c[p].image /\ r.crossed = c[p].crossed
    BY <1>1, <2>1 DEF CommandRecord
  <2> HIDE DEF r
  <2>4. Others(p) /\ c'[p] = r
    BY <1>2, <2>2, <2>3
  <2> QED BY <2>3, <2>4 DEF l
<1>7. MakeDisk(p) =>
        \/ Goes(p, "done") /\ disk' = disk
        \/ /\ disk' = [disk EXCEPT ![DiskPath(p)] = p] /\ Others(p)
           /\ c'[p].pc = IF c[p].kind = "image-build" THEN "seed" ELSE "spawn"
           /\ c'[p].kind = c[p].kind /\ c'[p].at = c[p].at
           /\ c'[p].crossed = c[p].crossed
           /\ c[p].kind = "image-build" =>
                c'[p].key = c[p].key /\ c'[p].image = Content(blob)
  <2> SUFFICES ASSUME MakeDisk(p), ~(Goes(p, "done") /\ disk' = disk)
               PROVE  /\ disk' = [disk EXCEPT ![DiskPath(p)] = p] /\ Others(p)
                      /\ c'[p].pc = IF c[p].kind = "image-build" THEN "seed" ELSE "spawn"
                      /\ c'[p].kind = c[p].kind /\ c'[p].at = c[p].at
                      /\ c'[p].crossed = c[p].crossed
                      /\ c[p].kind = "image-build" =>
                           c'[p].key = c[p].key /\ c'[p].image = Content(blob)
    OBVIOUS
  <2> DEFINE l == IF c[p].kind = "image-build" THEN "seed" ELSE "spawn"
             m == IF c[p].kind \in Runs THEN golden.image ELSE Content(blob)
             k == IF c[p].kind \in Runs THEN golden.key ELSE c[p].key
             r == [c[p] EXCEPT !.pc = l, !.image = m, !.key = k]
  <2>1. l \in Places
    BY DEF Places, Fallible
  <2>2. m \in Image
    <3>1. Content(blob) \in Image
      BY ContentImage DEF TypeOK
    <3> QED BY <3>1 DEF TypeOK
  <2>3. k \in Command
    BY <1>1 DEF TypeOK, CommandRecord
  <2>4. /\ disk' = [disk EXCEPT ![DiskPath(p)] = p]
        /\ c' = [c EXCEPT ![p] = r]
    BY <1>1, Moves DEF MakeDisk, Records
  <2>5. c[p].kind = "image-build" => k = c[p].key /\ m = Content(blob)
    BY DEF Runs
  <2> HIDE DEF l, m, k
  <2>6. /\ r \in CommandRecord /\ r.pc = l /\ r.kind = c[p].kind
        /\ r.at = c[p].at /\ r.key = k /\ r.image = m /\ r.crossed = c[p].crossed
    BY <1>1, <2>1, <2>2, <2>3 DEF CommandRecord
  <2> HIDE DEF r
  <2>7. Others(p) /\ c'[p] = r
    BY <1>2, <2>4, <2>6
  <2> QED BY <2>4, <2>5, <2>6, <2>7 DEF l
<1>8. MakeRunDir(p) =>
        /\ Others(p) /\ c'[p].at \in Stamps /\ c'[p].kind = c[p].kind
        /\ c'[p].key = c[p].key
        /\ c'[p].pc = AfterMkdir[c[p].kind]
  <2> SUFFICES ASSUME MakeRunDir(p)
               PROVE  /\ Others(p) /\ c'[p].at \in Stamps /\ c'[p].kind = c[p].kind
                      /\ c'[p].key = c[p].key
                      /\ c'[p].pc = AfterMkdir[c[p].kind]
    OBVIOUS
  <2> DEFINE l == AfterMkdir[c[p].kind]
  <2>1. PICK s \in Stamps : c' = [c EXCEPT ![p].at = s, ![p].pc = l]
    BY DEF MakeRunDir
  <2> DEFINE r == [c[p] EXCEPT !.at = s, !.pc = l]
  <2>2. l \in Places
    BY <1>1 DEF AfterMkdir, Places, Fallible, CommandRecord
  <2>3. c' = [c EXCEPT ![p] = r]
    BY <1>1, <2>1 DEF Records
  <2> HIDE DEF l
  <2>4. /\ r \in CommandRecord /\ r.pc = l /\ r.kind = c[p].kind
        /\ r.at = s /\ r.key = c[p].key
    BY <1>1, <2>2 DEF CommandRecord
  <2> HIDE DEF r
  <2>5. Others(p) /\ c'[p] = r
    BY <1>2, <2>3, <2>4
  <2> QED BY <2>4, <2>5 DEF l
<1>9. Start(p) =>
        /\ Others(p) /\ c'[p].at = NoStamp /\ c'[p].kind \in Kinds
        /\ c'[p].key = None
        /\ c'[p].pc \in {"host", "done"}
  <2> SUFFICES ASSUME Start(p)
               PROVE  /\ Others(p) /\ c'[p].at = NoStamp /\ c'[p].kind \in Kinds
                      /\ c'[p].key = None
                      /\ c'[p].pc \in {"host", "done"}
    OBVIOUS
  <2>1. PICK k \in Kinds, l \in {"host", "done"} :
          c' = [c EXCEPT ![p] = [Idle EXCEPT !.pc = l, !.kind = k]]
    BY DEF Start
  <2> DEFINE r == [Idle EXCEPT !.pc = l, !.kind = k]
  <2>2. /\ r \in CommandRecord /\ r.pc = l /\ r.kind = k
        /\ r.at = NoStamp /\ r.key = None
    BY KindsAssumption DEF CommandRecord, Idle, Places, Fallible, Command, Image
  <2> HIDE DEF r
  <2>3. c' = [c EXCEPT ![p] = r]
    BY <2>1 DEF r
  <2>4. Others(p) /\ c'[p] = r
    BY <1>2, <2>2, <2>3
  <2> QED BY <2>2, <2>4
<1> QED BY <1>3, <1>4, <1>5, <1>6, <1>7, <1>8, <1>9

-----------------------------------------------------------------------------
(* Run directories *)

\* A run directory, once made, is the command's for ever.
Dated == \A q \in Commands : Stamped(q) =>
           c'[q].at = c[q].at /\ c'[q].kind = c[q].kind

\* Two disks have one name if, and only if, they are of one kind and second.
LEMMA SamePath ==
  ASSUME TypeOK, NEW p \in Commands, NEW q \in Commands
  PROVE  /\ DiskPath(p) = DiskPath(q) => p = q \/ Twins(p, q)
         /\ DirName(p) = DirName(q) => p = q \/ Twins(p, q)
         /\ DiskPath(p)[1] = DirName(p)
<1>1. c[p].kind \in AllKinds /\ c[q].kind \in AllKinds
  BY DEF TypeOK, CommandRecord
<1>2. Suffix[c[p].kind] = Suffix[c[q].kind] => c[p].kind = c[q].kind
  BY <1>1 DEF Suffix, AllKinds
<1>3. DirName(p) = DirName(q) => c[p].at = c[q].at /\ c[p].kind = c[q].kind
  BY <1>2 DEF DirName
<1>4. DiskPath(p) = DiskPath(q) => DirName(p) = DirName(q)
  BY DEF DiskPath
<1> QED BY <1>3, <1>4 DEF Twins, DiskPath

LEMMA PathInPaths ==
  ASSUME TypeOK, NEW p \in Commands, Stamped(p), c[p].kind # "check-host"
  PROVE  DiskPath(p) \in Paths
<1>1. DirName(p) \in DirNames
  BY DEF DirName, DirNames, Stamped, TypeOK, CommandRecord
<1>2. DiskFile(p) \in {"working", "overlay"}
  BY DEF DiskFile
<1> QED BY <1>1, <1>2 DEF DiskPath, Paths

LEMMA DatedKeeps ==
  ASSUME Dated
  PROVE  \A q \in Commands : Stamped(q) =>
           /\ Stamped(q)' /\ DiskPath(q)' = DiskPath(q)
           /\ HasTwin(q) => HasTwin(q)'
<1> SUFFICES ASSUME NEW q \in Commands, Stamped(q)
             PROVE  /\ Stamped(q)' /\ DiskPath(q)' = DiskPath(q)
                    /\ HasTwin(q) => HasTwin(q)'
  OBVIOUS
<1>1. c'[q].at = c[q].at /\ c'[q].kind = c[q].kind
  BY DEF Dated
<1>2. Stamped(q)'
  BY <1>1 DEF Stamped
<1>3. DiskPath(q)' = DiskPath(q)
  BY <1>1 DEF DiskPath, DirName, DiskFile
<1>4. HasTwin(q) => HasTwin(q)'
  BY <1>1 DEF HasTwin, Twins, Dated, Stamped
<1> QED BY <1>2, <1>3, <1>4

\* Every step keeps the directories; only Start and MakeRunDir change an `at`
\* or a kind, and theirs is not yet stamped.
LEMMA GoesDated ==
  ASSUME NEW p \in Commands, Others(p),
         Stamped(p) => c'[p].at = c[p].at /\ c'[p].kind = c[p].kind
  PROVE  Dated
BY DEF Dated, Others, Keeps

-----------------------------------------------------------------------------
(* What keeps each part of the invariant *)

\* PlaceInv of one command.
PlaceOf(p) ==
  /\ c[p].pc \in Undirected => c[p].at = NoStamp
  /\ c[p].pc = "mkdir" => c[p].kind # "check-host"
  /\ c[p].pc = "seed" => c[p].kind \in {"spike", "image-build"}
  /\ c[p].pc \notin Undirected \cup {"done"} =>
       Stamped(p) /\ c[p].kind # "check-host"
  /\ c[p].pc \in {"unlink", "move"} => c[p].kind = "image-build" /\ vm[p] = None
  /\ c[p].pc \in {"wait", "unlink", "move"} => c[p].ready
  /\ c[p].pc \in Drives /\ c[p].kind = "image-build" => c[p].key # None

LEMMA PlaceKeeps ==
  ASSUME PlaceInv, NEW p \in Commands, Others(p), PlaceOf(p)',
         \A q \in Commands : q # p => vm'[q] \in {vm[q], None}
  PROVE  PlaceInv'
<1>1. ASSUME NEW q \in Commands, q # p
      PROVE  PlaceOf(q)'
  <2>1. Keeps(q) /\ vm'[q] \in {vm[q], None}
    BY <1>1 DEF Others
  <2>2. PlaceOf(q)
    BY DEF PlaceInv, PlaceOf
  <2> QED BY <2>1, <2>2 DEF PlaceOf, Keeps, Stamped
<1>2. \A q \in Commands : PlaceOf(q)'
  BY <1>1
<1> QED BY <1>2 DEF PlaceInv, PlaceOf

\* DiskInv after a step, each disk by name.
LEMMA DiskInvIs ==
  ASSUME \A f \in Paths : disk'[f] \in Commands \cup {None},
         \A q \in Commands : vm'[q] \in Commands \cup {None},
         \A f \in Paths, d \in Commands : disk'[f] = d =>
           Stamped(d)' /\ f = DiskPath(d)',
         \A q \in Commands, d \in Commands : vm'[q] = d =>
           /\ Stamped(q)' /\ Stamped(d)' /\ DiskPath(d)' = DiskPath(q)'
           /\ c'[q].pc \in {"settle", "boot", "wait", "finish", "done"}
  PROVE  DiskInv'
BY DEF DiskInv, Stamped, DiskPath, DirName, DiskFile

LEMMA DiskKeeps ==
  ASSUME DiskInv, NEW p \in Commands, Others(p), Dated, TypeOK,
         \A f \in Paths : disk'[f] \in {disk[f], None},
         \A q \in Commands : vm'[q] \in {vm[q], None},
         vm'[p] # None => c'[p].pc \in {"settle", "boot", "wait", "finish", "done"}
  PROVE  DiskInv'
<1>1. ASSUME NEW f \in Paths, NEW d \in Commands, disk'[f] = d
      PROVE  Stamped(d)' /\ f = DiskPath(d)'
  <2>1. disk[f] = d /\ d # None
    BY <1>1, NamesAssumption
  <2>2. Stamped(d) /\ f = DiskPath(d)
    BY <2>1 DEF DiskInv
  <2> QED BY <2>2, DatedKeeps
<1>2. ASSUME NEW q \in Commands, NEW d \in Commands, vm'[q] = d
      PROVE  /\ Stamped(q)' /\ Stamped(d)' /\ DiskPath(d)' = DiskPath(q)'
             /\ c'[q].pc \in {"settle", "boot", "wait", "finish", "done"}
  <2>1. vm[q] = d /\ d # None
    BY <1>2, NamesAssumption
  <2>2. /\ Stamped(q) /\ Stamped(d) /\ DiskPath(d) = DiskPath(q)
        /\ c[q].pc \in {"settle", "boot", "wait", "finish", "done"}
    BY <2>1 DEF DiskInv
  <2>3. c'[q].pc \in {"settle", "boot", "wait", "finish", "done"}
    BY <1>2, <2>1, <2>2 DEF Others, Keeps
  <2>4. /\ Stamped(q)' /\ DiskPath(q)' = DiskPath(q)
        /\ Stamped(d)' /\ DiskPath(d)' = DiskPath(d)
    BY <2>2, DatedKeeps
  <2> QED BY <2>2, <2>3, <2>4
<1>3. /\ \A f \in Paths : disk'[f] \in Commands \cup {None}
      /\ \A q \in Commands : vm'[q] \in Commands \cup {None}
  BY DEF TypeOK
<1> QED BY <1>1, <1>2, <1>3, DiskInvIs

\* The places where a command has its disk: OwnInv is about them.
Held(p) == c[p].pc \in Drives \/ (c[p].pc = "seed" /\ c[p].kind = "image-build")

LEMMA HeldStamped ==
  ASSUME PlaceInv, NEW q \in Commands, Held(q)
  PROVE  Stamped(q) /\ c[q].kind # "check-host"
BY DEF PlaceInv, Held, Drives, Undirected

LEMMA OwnKeeps ==
  ASSUME OwnInv, NEW p \in Commands, Others(p), Dated, TypeOK, PlaceInv,
         prunes' = 0 => prunes = 0,
         \A q \in Commands : Held(q) /\ q # p /\ prunes' = 0 /\ ~HasTwin(q)
           => disk'[DiskPath(q)] = disk[DiskPath(q)],
         Held(p)' => Stamped(p) /\ (prunes' = 0 /\ ~HasTwin(p) => disk'[DiskPath(p)] = p)
  PROVE  OwnInv'
<1> SUFFICES ASSUME NEW q \in Commands, Held(q)', prunes' = 0, ~HasTwin(q)'
             PROVE  disk'[DiskPath(q)'] = q
  BY DEF OwnInv, Held
<1>1. CASE q = p
  <2>1. Stamped(p) /\ ~HasTwin(p) /\ DiskPath(p)' = DiskPath(p)
    BY <1>1, DatedKeeps
  <2> QED BY <1>1, <2>1
<1>2. CASE q # p
  <2>1. Held(q)
    BY <1>2 DEF Held, Others, Keeps
  <2>2. Stamped(q)
    BY <2>1, HeldStamped
  <2>3. ~HasTwin(q) /\ DiskPath(q)' = DiskPath(q)
    BY <2>2, DatedKeeps
  <2>4. disk[DiskPath(q)] = q
    BY <2>1, <2>3 DEF OwnInv, Held
  <2> QED BY <1>2, <2>1, <2>3, <2>4
<1> QED BY <1>1, <1>2

LEMMA KeyKeeps ==
  ASSUME KeyInv, NEW p \in Commands, Others(p), UNCHANGED <<priv, pub>>,
         ~raced' => ~raced,
         c'[p].pc \notin {"keypriv", "keypub"},
         c'[p].key # None /\ c'[p].kind = "image-build" /\ ~raced' =>
           c'[p].key = priv /\ pub = priv
  PROVE  KeyInv'
BY DEF KeyInv, Others, Keeps

LEMMA GoldenKeeps ==
  ASSUME TypeOK, GoldenInv, GoldenTakesTheKey, NEW p \in Commands, Others(p), Dated,
         golden' \in {golden, NoGolden},
         \A q \in Commands : c[q].pc \in {"finish", "done"} => vm'[q] \in {vm[q], None},
         c[p].pc \in {"finish", "done"} => c'[p].pc \in {"finish", "done"},
         ~raced' => ~raced,
         UNCHANGED <<priv, pub>> \/ golden = NoGolden \/ raced' \/ HasTwin(golden.disk)
  PROVE  GoldenInv' /\ GoldenTakesTheKey'
<1> SUFFICES ASSUME golden' # NoGolden, golden' = golden
             PROVE  GoldenInv' /\ GoldenTakesTheKey'
  BY DEF GoldenInv, GoldenTakesTheKey, NoGolden
<1>1. CASE golden.disk = Earlier /\ golden.key = Earlier
  <2>1. ~HasTwin(Earlier) /\ ~HasTwin(Earlier)'
    BY NamesAssumption DEF HasTwin
  <2>2. GoldenInv'
    BY <1>1 DEF GoldenInv
  <2> QED BY <1>1, <2>1, <2>2 DEF GoldenTakesTheKey
<1>2. CASE golden.disk \in Commands
  <2>1. PICK e \in Commands : e = golden.disk
    BY <1>2
  <2>2. Stamped(e)
    BY <2>1, NamesAssumption DEF GoldenInv
  <2>3. Stamped(e)' /\ (HasTwin(e) => HasTwin(e)')
    BY <2>2, DatedKeeps
  <2>4. GoldenInv'
    <3>1. CASE HasTwin(e)
      <4>1. HasTwin(e)'
        BY <2>3, <3>1
      <4> QED BY <2>1, <2>3, <4>1 DEF GoldenInv, HasTwin, Twins, Stamped
    <3>2. CASE ~HasTwin(e)
      <4>1. c[e].pc \in {"finish", "done"} /\ vm[e] = None /\ golden.key # None
        BY <2>1, <3>2, NamesAssumption DEF GoldenInv
      <4>2. c'[e].pc \in {"finish", "done"} /\ vm'[e] = None
        BY <4>1 DEF Others, Keeps
      <4> QED BY <2>1, <2>3, <4>1, <4>2 DEF GoldenInv, Stamped
    <3> QED BY <3>1, <3>2
  <2>5. GoldenTakesTheKey'
    <3> SUFFICES ASSUME ~raced', ~HasTwin(e)'
                 PROVE  golden.key = priv' /\ pub' = priv'
      BY <2>1 DEF GoldenTakesTheKey, HasTwin, Twins
    <3>1. ~HasTwin(golden.disk)
      BY <2>1, <2>3
    <3> QED BY <3>1 DEF GoldenTakesTheKey
  <2> QED BY <2>4, <2>5
<1> QED BY <1>1, <1>2 DEF GoldenInv

-----------------------------------------------------------------------------
(* The steps *)

Safe == PlaceInv /\ DiskInv /\ OwnInv /\ KeyInv /\ GoldenInv /\ GoldenTakesTheKey

\* A step of p that makes no disk, no key and no golden, and starts no QEMU.
LEMMA Quiet ==
  ASSUME IInv, NEW p \in Commands, NEW l, Goes(p, l),
         UNCHANGED <<priv, pub, disk, prunes>>, ~raced' => ~raced,
         golden' \in {golden, NoGolden},
         vm' = vm \/ vm' = [vm EXCEPT ![p] = None],
         l \notin {"keypriv", "keypub"},
         PlaceOf(p)',
         vm'[p] # None => l \in {"settle", "boot", "wait", "finish", "done"},
         Held(p)' => Held(p),
         c[p].pc \in {"finish", "done"} => l \in {"finish", "done"}
  PROVE  Safe'
<1>1. /\ TypeOK /\ PlaceInv /\ DiskInv /\ OwnInv /\ KeyInv /\ GoldenInv
      /\ GoldenTakesTheKey
  BY DEF IInv
<1>2. /\ Others(p) /\ c'[p].pc = l /\ c'[p].at = c[p].at
      /\ c'[p].kind = c[p].kind /\ c'[p].key = c[p].key
  BY DEF Goes
<1>3. Dated
  BY <1>2, GoesDated
<1>4. \A q \in Commands : vm'[q] \in {vm[q], None}
  BY <1>1 DEF TypeOK
<1>5. PlaceInv'
  BY <1>1, <1>2, <1>4, PlaceKeeps
<1>6. DiskInv'
  BY <1>1, <1>2, <1>3, <1>4, DiskKeeps
<1>7. OwnInv'
  <2>1. Held(p) => Stamped(p)
    BY <1>1, HeldStamped
  <2>2. Held(p) /\ prunes = 0 /\ ~HasTwin(p) => disk[DiskPath(p)] = p
    BY <1>1 DEF OwnInv, Held
  <2>3. Held(p)' => Stamped(p) /\ (prunes' = 0 /\ ~HasTwin(p) => disk'[DiskPath(p)] = p)
    BY <2>1, <2>2
  <2>4. \A q \in Commands : Held(q) /\ q # p /\ prunes' = 0 /\ ~HasTwin(q)
          => disk'[DiskPath(q)] = disk[DiskPath(q)]
    OBVIOUS
  <2> QED BY <1>1, <1>2, <1>3, <2>3, <2>4, OwnKeeps
<1>8. KeyInv'
  <2>1. c[p].key # None /\ c[p].kind = "image-build" /\ ~raced =>
          c[p].key = priv /\ pub = priv
    BY <1>1 DEF KeyInv
  <2> QED BY <1>1, <1>2, <2>1, KeyKeeps
<1>9. GoldenInv' /\ GoldenTakesTheKey'
  BY <1>1, <1>2, <1>3, <1>4, GoldenKeeps
<1> QED BY <1>5, <1>6, <1>7, <1>8, <1>9 DEF Safe

\* PlaceOf after a step that keeps p's kind, second and key.
LEMMA ArrivesAt ==
  ASSUME IInv, NEW p \in Commands, NEW l, Goes(p, l),
         l \in Undirected => c[p].pc \in Undirected,
         l = "mkdir" => c[p].kind # "check-host",
         l # "seed",
         l \notin Undirected \cup {"done"} =>
           c[p].pc \notin Undirected \cup {"done"},
         l \in {"unlink", "move"} => c[p].kind = "image-build" /\ vm'[p] = None,
         l \in {"wait", "unlink", "move"} => c'[p].ready,
         l \in Drives => c[p].pc \in Drives
  PROVE  PlaceOf(p)'
<1>1. PlaceOf(p)
  BY DEF IInv, PlaceInv, PlaceOf
<1>2. /\ c'[p].pc = l /\ c'[p].at = c[p].at
      /\ c'[p].kind = c[p].kind /\ c'[p].key = c[p].key
  BY DEF Goes
<1> QED BY <1>1, <1>2 DEF PlaceOf, Stamped

LEMMA BeginSafe ==
  ASSUME IInv, NEW p \in Commands,
         CheckHost(p) \/ EnsureKey(p) \/ (KeygenLook(p) /\ priv # None)
  PROVE  Safe'
<1> USE DEF keys, bounds
<1>1. c \in Records
  BY DEF IInv, TypeOK, Records
<1>2. PICK l \in {"done", "key", "keygen", "mkdir"} :
        Goes(p, l) /\ (l = "mkdir" => c[p].kind # "check-host")
  <2>1. CASE CheckHost(p)
    BY <1>1, <2>1, Moves
  <2>2. CASE EnsureKey(p)
    BY <1>1, <2>2, Moves DEF AfterKey
  <2>3. CASE KeygenLook(p) /\ priv # None
    BY <1>1, <2>3, Moves DEF KeygenLook
  <2> QED BY <2>1, <2>2, <2>3
<1>3. /\ c[p].pc \in {"host", "key", "keygen"}
      /\ UNCHANGED <<priv, pub, disk, vm, golden, prunes>>
      /\ ~raced' => ~raced
  <2>1. CASE CheckHost(p) \/ EnsureKey(p)
    BY <2>1 DEF CheckHost, EnsureKey
  <2>2. CASE KeygenLook(p) /\ priv # None
    BY <2>2 DEF KeygenLook
  <2> QED BY <2>1, <2>2
<1>4. vm[p] = None
  BY <1>3 DEF IInv, DiskInv
<1>5. PlaceOf(p)'
  BY <1>2, <1>3, ArrivesAt DEF Undirected, Drives
<1>6. ~Held(p)'
  BY <1>2 DEF Held, Goes, Drives
<1> QED BY <1>2, <1>3, <1>4, <1>5, <1>6, Quiet

LEMMA DownloadSafe ==
  ASSUME IInv, NEW p \in Commands, Download(p)
  PROVE  Safe'
<1> USE DEF keys, bounds
<1>1. c \in Records /\ TypeOK
  BY DEF IInv, TypeOK, Records
<1>2. /\ c[p].pc \in {"look", "stale", "clear", "open", "curl", "hash", "rename"}
      /\ UNCHANGED <<priv, pub, disk, vm, golden, prunes, raced>>
  BY DEF Download, LookForSource, RemoveStale, ClearPartial, OpenPartial, EndCurl,
         HashPartial, RenamePartial
<1>3. PICK l \in {"source", "open", "clear", "stale", "curl", "rename", "hash", "done"} :
        Goes(p, l)
  BY <1>1, Moves, Changes DEF Download
<1>4. vm[p] = None
  BY <1>2 DEF IInv, DiskInv
<1>5. PlaceOf(p)'
  BY <1>2, <1>3, ArrivesAt DEF Undirected, Drives
<1>6. ~Held(p)'
  BY <1>3 DEF Held, Goes, Drives
<1> QED BY <1>2, <1>3, <1>4, <1>5, <1>6, Quiet

\* The steps of a command whose disk and QEMU are there, but the making of
\* either and the move.
LEMMA DriveSafe ==
  ASSUME IInv, NEW p \in Commands,
         Settle(p) \/ Boot(p) \/ WaitForQemu(p) \/ UnlinkGolden(p)
  PROVE  Safe'
<1> USE DEF keys, bounds
<1>1. c \in Records /\ TypeOK
  BY DEF IInv, TypeOK, Records
<1>2. /\ c[p].pc \in {"settle", "boot", "wait", "unlink"}
      /\ UNCHANGED <<priv, pub, disk, vm, prunes, raced>>
      /\ golden' \in {golden, NoGolden}
  BY DEF Settle, Boot, WaitForQemu, UnlinkGolden
<1>3. PlaceOf(p)
  BY DEF IInv, PlaceInv, PlaceOf
<1>4. PICK l \in {"done", "boot", "wait", "finish", "unlink", "move"} :
        /\ Goes(p, l)
        /\ l \in {"wait", "unlink", "move"} => c'[p].ready
        /\ l \in {"unlink", "move"} => c[p].kind = "image-build" /\ vm[p] = None
  <2>1. CASE Settle(p)
    BY <1>1, <2>1, Moves
  <2>2. CASE Boot(p)
    BY <1>1, <2>2, Changes
  <2>3. CASE WaitForQemu(p)
    <3>1. c[p].ready
      BY <1>3, <2>3 DEF PlaceOf, WaitForQemu
    <3>2. CASE Goes(p, "done")
      BY <3>2
    <3>3. CASE Goes(p, "finish")
      BY <3>3
    <3>4. CASE Goes(p, "unlink") /\ c[p].kind = "image-build" /\ vm[p] = None
      <4>1. c'[p].ready
        BY <3>1, <3>4 DEF Goes
      <4> QED BY <3>4, <4>1
    <3> QED BY <1>1, <2>3, <3>2, <3>3, <3>4, Moves
  <2>4. CASE UnlinkGolden(p)
    <3>1. Goes(p, "move")
      BY <1>1, <2>4, Moves
    <3>2. c[p].ready /\ c[p].kind = "image-build" /\ vm[p] = None
      BY <1>3, <2>4 DEF PlaceOf, UnlinkGolden
    <3> QED BY <3>1, <3>2 DEF Goes
  <2> QED BY <2>1, <2>2, <2>3, <2>4
<1>5. PlaceOf(p)'
  BY <1>2, <1>4, ArrivesAt DEF Undirected, Drives
<1>6. Held(p)
  BY <1>2 DEF Held, Drives
<1> QED BY <1>2, <1>4, <1>5, <1>6, Quiet

\* An exception, a SIGINT, the end of a QEMU.
LEMMA FailSafe ==
  ASSUME IInv, NEW p \in Commands,
         Fails(p) \/ Interrupt(p) \/ QemuQuits(p)
         \/ (Goes(p, "done") /\ UNCHANGED <<keys, disk, vm, golden, prunes>>)
  PROVE  Safe'
<1> USE DEF keys, bounds
<1>1. c \in Records /\ TypeOK
  BY DEF IInv, TypeOK, Records
<1>2. /\ UNCHANGED <<priv, pub, disk, prunes, raced, golden>>
      /\ vm' = vm \/ vm' = [vm EXCEPT ![p] = None]
  BY <1>1 DEF Fails, Interrupt, QemuQuits, TypeOK
<1>3. CASE ~QemuQuits(p)
  <2>1. Goes(p, "done")
    BY <1>1, <1>3, Moves DEF Fails, Interrupt
  <2>2. PlaceOf(p)'
    BY <2>1, ArrivesAt DEF Undirected, Drives
  <2>3. ~Held(p)'
    BY <2>1 DEF Held, Goes, Drives
  <2> QED BY <1>2, <2>1, <2>2, <2>3, Quiet
<1>4. CASE QemuQuits(p)
  <2>1. c' = c
    BY <1>4 DEF QemuQuits
  <2>2. Goes(p, c[p].pc)
    BY <1>1, <2>1 DEF Goes, Others, Keeps
  <2>3. vm'[p] = None
    BY <1>1, <1>4 DEF QemuQuits, TypeOK
  <2>4. PlaceOf(p)'
    BY <2>1, <2>3 DEF IInv, PlaceInv, PlaceOf, Stamped
  <2>5. Held(p)' => Held(p)
    BY <2>1 DEF Held
  <2>6. CASE c[p].pc \notin {"keypriv", "keypub"}
    BY <1>2, <2>2, <2>3, <2>4, <2>5, <2>6, Quiet
  <2>7. CASE c[p].pc \in {"keypriv", "keypub"}
    <3>1. vm[p] = None
      BY <2>7 DEF IInv, DiskInv
    <3> QED BY <1>4, <3>1 DEF QemuQuits
  <2> QED BY <2>6, <2>7
<1> QED BY <1>3, <1>4

\* With both halves of a pair or none, ssh-keygen changes no pair in use:
\* without its private half there is no golden that takes it.
LEMMA KeygenSafe ==
  ASSUME IInv, NEW p \in Commands,
         \/ KeygenLook(p) /\ priv = None
         \/ KeygenPrivate(p) \/ KeygenPublic(p)
  PROVE  Safe'
<1> USE DEF keys, bounds
<1>1. /\ c \in Records /\ TypeOK /\ PlaceInv /\ DiskInv /\ OwnInv /\ KeyInv
      /\ GoldenInv /\ GoldenTakesTheKey
  BY DEF IInv, TypeOK, Records
<1>2. /\ c[p].pc \in {"keygen", "keypriv", "keypub"}
      /\ UNCHANGED <<disk, vm, golden, prunes>>
  BY DEF KeygenLook, KeygenPrivate, KeygenPublic
<1>3. PICK l \in {"keypriv", "keypub", "done", "mkdir"} :
        /\ Goes(p, l)
        /\ l = "mkdir" => c[p].kind # "check-host"
        /\ KeygenLook(p) => l \in {"keypriv", "done"}
        /\ KeygenPrivate(p) => l = "keypub"
        /\ KeygenPublic(p) => l \in {"done", "mkdir"}
  <2>1. CASE KeygenLook(p)
    BY <1>1, <2>1, Moves DEF KeygenLook, KeygenPrivate, KeygenPublic
  <2>2. CASE KeygenPrivate(p)
    BY <1>1, <2>2, Moves DEF KeygenLook, KeygenPrivate, KeygenPublic
  <2>3. CASE KeygenPublic(p)
    BY <1>1, <2>3, Moves DEF KeygenLook, KeygenPrivate, KeygenPublic, AfterKey
  <2> QED BY <2>1, <2>2, <2>3
<1>4. /\ Others(p) /\ c'[p].pc = l /\ c'[p].at = c[p].at
      /\ c'[p].kind = c[p].kind /\ c'[p].key = c[p].key
  BY <1>3 DEF Goes
<1>5. Dated
  BY <1>4, GoesDated
<1>6. PlaceInv'
  <2>1. PlaceOf(p)'
    BY <1>2, <1>3, ArrivesAt DEF Undirected, Drives
  <2> QED BY <1>1, <1>2, <1>4, <2>1, PlaceKeeps
<1>7. DiskInv'
  <2>1. vm[p] = None
    BY <1>1, <1>2 DEF DiskInv
  <2> QED BY <1>1, <1>2, <1>4, <1>5, <2>1, DiskKeeps
<1>8. OwnInv'
  <2>1. ~Held(p)'
    BY <1>3, <1>4 DEF Held, Drives
  <2> QED BY <1>1, <1>2, <1>4, <1>5, <2>1, OwnKeeps
<1>9. ~raced' => ~raced
  BY <1>1 DEF KeygenLook, KeygenPrivate, KeygenPublic, TypeOK
<1>10. KeyInv'
  <2> SUFFICES ASSUME ~raced' PROVE KeyInv'
    BY DEF KeyInv
  <2>1. CASE KeygenLook(p)
    <3>1. \A q \in Commands : q # p => c[q].pc \notin {"keypriv", "keypub"}
      <4>1. priv = None
        BY <2>1 DEF KeygenLook, KeygenPrivate, KeygenPublic
      <4>2. ~\E q \in Commands \ {p} : c[q].pc \in {"keypriv", "keypub"}
        BY <2>1, <4>1 DEF KeygenLook
      <4> QED BY <4>2
    <3>2. UNCHANGED <<priv, pub>> /\ priv = None /\ l # "keypub"
      BY <1>3, <2>1 DEF KeygenLook, KeygenPrivate, KeygenPublic
    <3> QED BY <1>1, <1>4, <1>9, <3>1, <3>2 DEF KeyInv, Others, Keeps
  <2>2. CASE KeygenPrivate(p)
    <3>1. priv' = p /\ pub' = pub /\ c[p].pc = "keypriv" /\ l = "keypub"
      BY <1>3, <2>2 DEF KeygenPrivate
    <3> QED BY <1>1, <1>4, <1>9, <3>1 DEF KeyInv, Others, Keeps
  <2>3. CASE KeygenPublic(p)
    <3>1. priv' = priv /\ pub' = p /\ c[p].pc = "keypub" /\ l \in {"done", "mkdir"}
      BY <1>3, <2>3 DEF KeygenPublic
    <3>2. p # None
      BY NamesAssumption
    <3> QED BY <1>1, <1>4, <1>9, <3>1, <3>2 DEF KeyInv, Others, Keeps
  <2> QED BY <2>1, <2>2, <2>3
<1>11. UNCHANGED <<priv, pub>> \/ golden = NoGolden \/ raced' \/ HasTwin(golden.disk)
  <2> SUFFICES ASSUME ~raced', ~KeygenLook(p), golden # NoGolden, ~HasTwin(golden.disk)
               PROVE  FALSE
    BY DEF KeygenLook
  <2>1. golden.key = priv /\ pub = priv /\ ~raced
    BY <1>1, <1>9 DEF GoldenTakesTheKey
  <2>2. golden.key # None
    BY <1>1, NamesAssumption DEF GoldenInv
  <2>3. pub = None
    BY <1>1, <2>1 DEF KeyInv, KeygenPrivate, KeygenPublic
  <2> QED BY <2>1, <2>2, <2>3
<1>12. GoldenInv' /\ GoldenTakesTheKey'
  BY <1>1, <1>2, <1>4, <1>5, <1>9, <1>11, GoldenKeeps
<1> QED BY <1>6, <1>7, <1>8, <1>10, <1>12 DEF Safe

\* A command's record at its start, its directory, the key for its seed.
LEMMA RecordSafe ==
  ASSUME IInv, NEW p \in Commands,
         Start(p) \/ MakeRunDir(p) \/ ReadPublicKey(p)
  PROVE  Safe'
<1> USE DEF keys, bounds
<1>1. /\ c \in Records /\ TypeOK /\ PlaceInv /\ DiskInv /\ OwnInv /\ KeyInv
      /\ GoldenInv /\ GoldenTakesTheKey
  BY DEF IInv, TypeOK, Records
<1>2. /\ c[p].pc \in {"idle", "mkdir", "seed"}
      /\ UNCHANGED <<priv, pub, raced, disk, vm, golden, prunes>>
  BY DEF Start, MakeRunDir, ReadPublicKey
<1>3. PlaceOf(p)
  BY <1>1 DEF PlaceInv, PlaceOf
<1>4. CASE Goes(p, "done")
  BY <1>2, <1>4, FailSafe
<1> SUFFICES ASSUME ~Goes(p, "done") PROVE Safe'
  BY <1>4
<1>5. /\ Others(p)
      /\ Stamped(p) => c'[p].at = c[p].at /\ c'[p].kind = c[p].kind
      /\ c'[p].pc \notin {"keypriv", "keypub"}
  <2>1. CASE Start(p)
    BY <1>1, <1>3, <2>1, Changes, NamesAssumption DEF Start, PlaceOf, Undirected, Stamped
  <2>2. CASE MakeRunDir(p)
    <3>1. c[p].kind \in AllKinds
      BY <1>1 DEF TypeOK, CommandRecord
    <3> QED BY <1>1, <1>3, <2>2, <3>1, Changes, NamesAssumption
            DEF MakeRunDir, PlaceOf, Undirected, Stamped, AfterMkdir
  <2>3. CASE ReadPublicKey(p)
    BY <1>1, <2>3, Changes
  <2> QED BY <2>1, <2>2, <2>3
<1>6. Dated
  BY <1>5, GoesDated
<1>7. PlaceOf(p)'
  <2>1. CASE Start(p)
    BY <1>1, <2>1, Changes DEF PlaceOf, Undirected, Drives
  <2>2. CASE MakeRunDir(p)
    <3>1. c[p].kind \in AllKinds /\ c[p].kind # "check-host"
      BY <1>1, <1>3, <2>2 DEF TypeOK, CommandRecord, PlaceOf, MakeRunDir
    <3>2. /\ c'[p].at \in Stamps /\ c'[p].kind = c[p].kind
          /\ c'[p].pc \in {"seed", "look", "source"}
          /\ c'[p].pc = "seed" => c[p].kind = "spike"
      BY <1>1, <2>2, <3>1, Changes DEF AfterMkdir
    <3> QED BY <3>1, <3>2 DEF PlaceOf, Undirected, Drives, Stamped
  <2>3. CASE ReadPublicKey(p)
    <3>1. c[p].at \in Stamps /\ c[p].kind # "check-host"
      BY <1>3, <2>3 DEF PlaceOf, ReadPublicKey, Undirected, Stamped
    <3> QED BY <1>1, <2>3, <3>1, Changes DEF PlaceOf, Undirected, Drives, Stamped
  <2> QED BY <2>1, <2>2, <2>3
<1>8. PlaceInv'
  BY <1>1, <1>2, <1>5, <1>7, PlaceKeeps
<1>9. DiskInv'
  <2>1. vm[p] = None
    BY <1>1, <1>2 DEF DiskInv
  <2> QED BY <1>1, <1>2, <1>5, <1>6, <2>1, DiskKeeps
<1>10. OwnInv'
  <2>1. Held(p)' => Held(p)
    <3>1. CASE Start(p)
      BY <1>1, <3>1, Changes DEF Held, Drives
    <3>2. CASE MakeRunDir(p)
      <4>1. c[p].kind \in AllKinds
        BY <1>1 DEF TypeOK, CommandRecord
      <4> QED BY <1>1, <3>2, <4>1, Changes DEF Held, Drives, AfterMkdir
    <3>3. CASE ReadPublicKey(p)
      <4>1. c[p].kind \in {"spike", "image-build"}
        BY <1>3, <3>3 DEF PlaceOf, ReadPublicKey
      <4> QED BY <1>1, <3>3, <4>1, Changes DEF Held, Drives, ReadPublicKey
    <3> QED BY <3>1, <3>2, <3>3
  <2>2. Held(p) => Stamped(p) /\ (prunes = 0 /\ ~HasTwin(p) => disk[DiskPath(p)] = p)
    BY <1>1, HeldStamped DEF OwnInv, Held
  <2> QED BY <1>1, <1>2, <1>5, <1>6, <2>1, <2>2, OwnKeeps
<1>11. KeyInv'
  <2>1. c'[p].key # None /\ c'[p].kind = "image-build" /\ ~raced' =>
          c'[p].key = priv /\ pub = priv
    <3>1. CASE Start(p)
      BY <1>1, <3>1, Changes
    <3>2. CASE MakeRunDir(p)
      BY <1>1, <1>2, <3>2, Changes DEF KeyInv
    <3>3. CASE ReadPublicKey(p)
      BY <1>1, <1>2, <3>3, Changes DEF KeyInv
    <3> QED BY <3>1, <3>2, <3>3
  <2> QED BY <1>1, <1>2, <1>5, <2>1, KeyKeeps
<1>12. GoldenInv' /\ GoldenTakesTheKey'
  BY <1>1, <1>2, <1>5, <1>6, GoldenKeeps
<1> QED BY <1>8, <1>9, <1>10, <1>11, <1>12 DEF Safe

LEMMA MakeDiskSafe ==
  ASSUME IInv, NEW p \in Commands, MakeDisk(p)
  PROVE  Safe'
<1> USE DEF keys, bounds
<1>1. /\ c \in Records /\ TypeOK /\ PlaceInv /\ DiskInv /\ OwnInv /\ KeyInv
      /\ GoldenInv /\ GoldenTakesTheKey
  BY DEF IInv, TypeOK, Records
<1>2. c[p].pc = "source" /\ UNCHANGED <<priv, pub, raced, vm, golden, prunes>>
  BY DEF MakeDisk
<1>3. Stamped(p) /\ c[p].kind # "check-host" /\ vm[p] = None
  BY <1>1, <1>2 DEF PlaceInv, DiskInv, Undirected
<1>4. CASE Goes(p, "done") /\ disk' = disk
  BY <1>2, <1>4, FailSafe
<1>5. CASE ~(Goes(p, "done") /\ disk' = disk)
  <2>1. /\ disk' = [disk EXCEPT ![DiskPath(p)] = p] /\ Others(p)
        /\ c'[p].pc = IF c[p].kind = "image-build" THEN "seed" ELSE "spawn"
        /\ c'[p].kind = c[p].kind /\ c'[p].at = c[p].at
        /\ c[p].kind = "image-build" => c'[p].key = c[p].key
    BY <1>1, <1>5, Changes
  <2>2. Dated
    BY <2>1, GoesDated
  <2>3. DiskPath(p) \in Paths
    BY <1>1, <1>3, PathInPaths
  <2>4. PlaceInv'
    <3>1. PlaceOf(p)'
      BY <1>2, <1>3, <2>1 DEF PlaceOf, Undirected, Drives, Stamped
    <3> QED BY <1>1, <1>2, <2>1, <3>1, PlaceKeeps
  <2>5. DiskInv'
    <3>1. /\ \A f \in Paths : disk'[f] \in Commands \cup {None}
          /\ \A q \in Commands : vm'[q] \in Commands \cup {None}
      BY <1>1, <1>2, <2>1 DEF TypeOK
    <3>2. ASSUME NEW f \in Paths, NEW d \in Commands, disk'[f] = d
          PROVE  Stamped(d)' /\ f = DiskPath(d)'
      <4>1. (f = DiskPath(p) /\ d = p) \/ disk[f] = d
        BY <1>1, <2>1, <3>2 DEF TypeOK
      <4>2. Stamped(d) /\ f = DiskPath(d)
        BY <1>1, <1>3, <4>1, NamesAssumption DEF DiskInv
      <4> QED BY <2>2, <4>2, DatedKeeps
    <3>3. ASSUME NEW q \in Commands, NEW d \in Commands, vm'[q] = d
          PROVE  /\ Stamped(q)' /\ Stamped(d)' /\ DiskPath(d)' = DiskPath(q)'
                 /\ c'[q].pc \in {"settle", "boot", "wait", "finish", "done"}
      <4>1. vm[q] = d /\ d # None /\ q # p
        BY <1>2, <1>3, <3>3, NamesAssumption
      <4>2. /\ Stamped(q) /\ Stamped(d) /\ DiskPath(d) = DiskPath(q)
            /\ c[q].pc \in {"settle", "boot", "wait", "finish", "done"}
        BY <1>1, <4>1 DEF DiskInv
      <4>3. Keeps(q)
        BY <2>1, <4>1 DEF Others
      <4> QED BY <2>2, <4>2, <4>3, DatedKeeps DEF Keeps
    <3> QED BY <3>1, <3>2, <3>3, DiskInvIs
  <2>6. OwnInv'
    <3>1. disk'[DiskPath(p)] = p
      BY <1>1, <2>1, <2>3 DEF TypeOK
    <3>2. ASSUME NEW q \in Commands, Held(q), q # p, ~HasTwin(q)
          PROVE  disk'[DiskPath(q)] = disk[DiskPath(q)]
      <4>1. DiskPath(q) # DiskPath(p)
        BY <1>1, <3>2, SamePath DEF HasTwin
      <4>2. DiskPath(q) \in Paths
        BY <1>1, <3>2, HeldStamped, PathInPaths
      <4> QED BY <1>1, <2>1, <4>1, <4>2 DEF TypeOK
    <3> QED BY <1>1, <1>2, <1>3, <2>1, <2>2, <3>1, <3>2, OwnKeeps
  <2>7. KeyInv'
    BY <1>1, <1>2, <2>1, KeyKeeps DEF KeyInv
  <2>8. GoldenInv' /\ GoldenTakesTheKey'
    BY <1>1, <1>2, <2>1, <2>2, GoldenKeeps
  <2> QED BY <2>4, <2>5, <2>6, <2>7, <2>8 DEF Safe
<1> QED BY <1>4, <1>5

LEMMA SpawnSafe ==
  ASSUME IInv, NEW p \in Commands, Spawn(p)
  PROVE  Safe'
<1> USE DEF keys, bounds
<1>1. /\ c \in Records /\ TypeOK /\ PlaceInv /\ DiskInv /\ OwnInv /\ KeyInv
      /\ GoldenInv /\ GoldenTakesTheKey
  BY DEF IInv, TypeOK, Records
<1>2. c[p].pc = "spawn" /\ UNCHANGED <<priv, pub, raced, disk, golden, prunes>>
  BY DEF Spawn
<1>3. Stamped(p) /\ c[p].kind # "check-host" /\ Held(p)
  BY <1>1, <1>2 DEF PlaceInv, Undirected, Held, Drives
<1>4. CASE Raise(p) /\ vm' = vm
  <2>1. Goes(p, "done")
    BY <1>1, <1>4, Moves
  <2> QED BY <1>2, <1>4, <2>1, FailSafe
<1>5. CASE ~(Raise(p) /\ vm' = vm)
  <2> DEFINE d == disk[DiskPath(p)]
  <2>1. d # None /\ vm' = [vm EXCEPT ![p] = d] /\ To(p, "settle")
    BY <1>5 DEF Spawn
  <2>2. Goes(p, "settle")
    BY <1>1, <2>1, ToKeeps DEF Places, Fallible
  <2>3. /\ Others(p) /\ c'[p].pc = "settle" /\ c'[p].at = c[p].at
        /\ c'[p].kind = c[p].kind /\ c'[p].key = c[p].key
    BY <2>2 DEF Goes
  <2>4. Dated
    BY <2>3, GoesDated
  <2>5. DiskPath(p) \in Paths
    BY <1>1, <1>3, PathInPaths
  <2>6. d \in Commands /\ Stamped(d) /\ DiskPath(d) = DiskPath(p)
    BY <1>1, <2>1, <2>5 DEF TypeOK, DiskInv
  <2>7. \A q \in Commands : vm'[q] = IF q = p THEN d ELSE vm[q]
    BY <1>1, <2>1 DEF TypeOK
  <2> HIDE DEF d
  <2>8. PlaceInv'
    <3>1. PlaceOf(p)'
      BY <1>2, <2>2, ArrivesAt DEF Undirected, Drives
    <3> QED BY <1>1, <2>3, <2>7, <3>1, PlaceKeeps
  <2>9. DiskInv'
    <3>1. /\ \A f \in Paths : disk'[f] \in Commands \cup {None}
          /\ \A q \in Commands : vm'[q] \in Commands \cup {None}
      BY <1>1, <1>2, <2>6, <2>7 DEF TypeOK
    <3>2. ASSUME NEW f \in Paths, NEW e \in Commands, disk'[f] = e
          PROVE  Stamped(e)' /\ f = DiskPath(e)'
      <4>1. Stamped(e) /\ f = DiskPath(e)
        BY <1>1, <1>2, <3>2, NamesAssumption DEF DiskInv
      <4> QED BY <2>4, <4>1, DatedKeeps
    <3>3. ASSUME NEW q \in Commands, NEW e \in Commands, vm'[q] = e
          PROVE  /\ Stamped(q)' /\ Stamped(e)' /\ DiskPath(e)' = DiskPath(q)'
                 /\ c'[q].pc \in {"settle", "boot", "wait", "finish", "done"}
      <4>1. CASE q = p
        <5>1. e = d
          BY <2>7, <3>3, <4>1
        <5>2. Stamped(q) /\ Stamped(e) /\ DiskPath(e) = DiskPath(q)
          BY <1>3, <2>6, <4>1, <5>1 DEF Stamped, DiskPath, DirName, DiskFile
        <5> QED BY <2>3, <2>4, <4>1, <5>2, DatedKeeps
      <4>2. CASE q # p
        <5>1. vm[q] = e /\ e # None
          BY <2>7, <3>3, <4>2, NamesAssumption
        <5>2. /\ Stamped(q) /\ Stamped(e) /\ DiskPath(e) = DiskPath(q)
              /\ c[q].pc \in {"settle", "boot", "wait", "finish", "done"}
          BY <1>1, <5>1 DEF DiskInv
        <5>3. Keeps(q)
          BY <2>3, <4>2 DEF Others
        <5> QED BY <2>4, <5>2, <5>3, DatedKeeps DEF Keeps
      <4> QED BY <4>1, <4>2
    <3> QED BY <3>1, <3>2, <3>3, DiskInvIs
  <2>10. OwnInv'
    <3>1. prunes = 0 /\ ~HasTwin(p) => disk[DiskPath(p)] = p
      BY <1>1, <1>3 DEF OwnInv, Held
    <3> QED BY <1>1, <1>2, <1>3, <2>3, <2>4, <3>1, OwnKeeps
  <2>11. KeyInv'
    BY <1>1, <1>2, <2>3, KeyKeeps DEF KeyInv
  <2>12. GoldenInv' /\ GoldenTakesTheKey'
    BY <1>1, <1>2, <2>3, <2>4, <2>7, GoldenKeeps
  <2> QED BY <2>8, <2>9, <2>10, <2>11, <2>12 DEF Safe
<1> QED BY <1>4, <1>5

\* What a build moves is its own disk or a twin's.
LEMMA MoveGoldenSafe ==
  ASSUME IInv, NEW p \in Commands, MoveGolden(p)
  PROVE  Safe'
<1> USE DEF keys, bounds
<1>1. /\ c \in Records /\ TypeOK /\ PlaceInv /\ DiskInv /\ OwnInv /\ KeyInv
      /\ GoldenInv /\ GoldenTakesTheKey
  BY DEF IInv, TypeOK, Records
<1>2. c[p].pc = "move" /\ UNCHANGED <<priv, pub, raced, vm, prunes>>
  BY DEF MoveGolden
<1>3. /\ Stamped(p) /\ c[p].kind = "image-build" /\ vm[p] = None
      /\ c[p].key # None
  BY <1>1, <1>2 DEF PlaceInv, Undirected, Drives
<1>4. CASE Raise(p) /\ disk' = disk /\ golden' = golden
  <2>1. Goes(p, "done")
    BY <1>1, <1>4, Moves
  <2> QED BY <1>2, <1>4, <2>1, FailSafe
<1>5. CASE ~(Raise(p) /\ disk' = disk /\ golden' = golden)
  <2>1. DiskPath(p) \in Paths
    BY <1>1, <1>3, PathInPaths
  <2>2. PICK d \in Commands : d = disk[DiskPath(p)]
    BY <1>1, <1>5, <2>1 DEF MoveGolden, TypeOK
  <2>3. /\ golden' = [disk |-> d, key |-> c[d].key, image |-> c[d].image,
                      vouched |-> c[d].ready]
        /\ disk' = [disk EXCEPT ![DiskPath(p)] = None]
        /\ To(p, "finish")
    BY <1>5, <2>2 DEF MoveGolden
  <2>4. Goes(p, "finish")
    BY <1>1, <2>3, ToKeeps DEF Places, Fallible
  <2>5. /\ Others(p) /\ c'[p].pc = "finish" /\ c'[p].at = c[p].at
        /\ c'[p].kind = c[p].kind /\ c'[p].key = c[p].key
    BY <2>4 DEF Goes
  <2>6. Dated
    BY <2>5, GoesDated
  <2>7. Stamped(d) /\ DiskPath(d) = DiskPath(p)
    BY <1>1, <2>1, <2>2, NamesAssumption DEF DiskInv
  <2>8. d = p \/ HasTwin(d)
    BY <1>1, <2>7, SamePath DEF HasTwin
  <2>9. /\ \A q \in Commands : vm'[q] \in {vm[q], None}
        /\ \A f \in Paths : disk'[f] = IF f = DiskPath(p) THEN None ELSE disk[f]
    BY <1>1, <1>2, <2>3 DEF TypeOK
  <2>10. PlaceInv'
    <3>1. PlaceOf(p)'
      BY <1>2, <1>3, <2>4, ArrivesAt DEF Undirected, Drives
    <3> QED BY <1>1, <2>5, <2>9, <3>1, PlaceKeeps
  <2>11. DiskInv'
    BY <1>1, <2>5, <2>6, <2>9, DiskKeeps
  <2>12. OwnInv'
    <3>1. ASSUME NEW q \in Commands, Held(q), q # p, ~HasTwin(q)
          PROVE  disk'[DiskPath(q)] = disk[DiskPath(q)]
      <4>1. DiskPath(q) # DiskPath(p)
        BY <1>1, <3>1, SamePath DEF HasTwin
      <4>2. DiskPath(q) \in Paths
        BY <1>1, <3>1, HeldStamped, PathInPaths
      <4> QED BY <2>9, <4>1, <4>2
    <3>2. ~Held(p)'
      BY <2>5 DEF Held, Drives
    <3> QED BY <1>1, <1>2, <2>5, <2>6, <3>1, <3>2, OwnKeeps
  <2>13. KeyInv'
    BY <1>1, <1>2, <2>5, KeyKeeps DEF KeyInv
  <2>14. golden'.disk = d /\ golden'.key = c[d].key
    BY <2>3
  <2>15. Stamped(d)' /\ (HasTwin(d) => HasTwin(d)')
    BY <2>6, <2>7, DatedKeeps
  <2>16. GoldenInv'
    <3>1. CASE HasTwin(d)
      BY <2>14, <2>15, <3>1 DEF GoldenInv, HasTwin, Twins, Stamped
    <3>2. CASE d = p
      BY <1>2, <1>3, <2>5, <2>14, <2>15, <3>2 DEF GoldenInv, Stamped
    <3> QED BY <2>8, <3>1, <3>2
  <2>17. GoldenTakesTheKey'
    <3>1. CASE HasTwin(d)
      BY <2>14, <2>15, <3>1 DEF GoldenTakesTheKey, HasTwin, Twins
    <3>2. CASE d = p
      <4>1. ~raced => c[p].key = priv /\ pub = priv
        BY <1>1, <1>3 DEF KeyInv
      <4> QED BY <1>2, <2>14, <3>2, <4>1 DEF GoldenTakesTheKey
    <3> QED BY <2>8, <3>1, <3>2
  <2> QED BY <2>10, <2>11, <2>12, <2>13, <2>16, <2>17 DEF Safe
<1> QED BY <1>4, <1>5

\* A command cleans only its own directory.
LEMMA FinishSafe ==
  ASSUME IInv, NEW p \in Commands, Finish(p)
  PROVE  Safe'
<1> USE DEF keys, bounds
<1>1. /\ c \in Records /\ TypeOK /\ PlaceInv /\ DiskInv /\ OwnInv /\ KeyInv
      /\ GoldenInv /\ GoldenTakesTheKey
  BY DEF IInv, TypeOK, Records
<1>2. c[p].pc = "finish" /\ UNCHANGED <<priv, pub, raced, vm, golden, prunes>>
  BY DEF Finish
<1>3. Goes(p, "done")
  BY <1>1, Moves
<1>4. /\ Others(p) /\ c'[p].pc = "done" /\ c'[p].at = c[p].at
      /\ c'[p].kind = c[p].kind /\ c'[p].key = c[p].key
  BY <1>3 DEF Goes
<1>5. Dated
  BY <1>4, GoesDated
<1>6. /\ \A f \in Paths : disk'[f] \in {disk[f], None}
      /\ \A f \in Paths : f # DiskPath(p) /\ f[1] # DirName(p) => disk'[f] = disk[f]
  BY <1>1 DEF Finish, TypeOK
<1>7. PlaceInv'
  <2>1. PlaceOf(p)'
    BY <1>2, <1>3, ArrivesAt DEF Undirected, Drives
  <2> QED BY <1>1, <1>2, <1>4, <2>1, PlaceKeeps
<1>8. DiskInv'
  BY <1>1, <1>2, <1>4, <1>5, <1>6, DiskKeeps
<1>9. OwnInv'
  <2>1. ASSUME NEW q \in Commands, Held(q), q # p, ~HasTwin(q)
        PROVE  disk'[DiskPath(q)] = disk[DiskPath(q)]
    <3>1. DiskPath(q) # DiskPath(p) /\ DiskPath(q)[1] # DirName(p)
      BY <1>1, <2>1, SamePath DEF HasTwin
    <3>2. DiskPath(q) \in Paths
      BY <1>1, <2>1, HeldStamped, PathInPaths
    <3> QED BY <1>6, <3>1, <3>2
  <2>2. ~Held(p)'
    BY <1>4 DEF Held, Drives
  <2> QED BY <1>1, <1>2, <1>4, <1>5, <2>1, <2>2, OwnKeeps
<1>10. KeyInv'
  BY <1>1, <1>2, <1>4, KeyKeeps DEF KeyInv
<1>11. GoldenInv' /\ GoldenTakesTheKey'
  BY <1>1, <1>2, <1>4, <1>5, GoldenKeeps
<1> QED BY <1>7, <1>8, <1>9, <1>10, <1>11 DEF Safe

LEMMA PruneSafe ==
  ASSUME IInv, Prune
  PROVE  Safe'
<1>1. /\ TypeOK /\ PlaceInv /\ DiskInv /\ OwnInv /\ KeyInv /\ GoldenInv
      /\ GoldenTakesTheKey
  BY DEF IInv
<1>2. /\ UNCHANGED <<priv, pub, raced, vm, c>>
      /\ prunes' # 0 /\ disk' = [f \in Paths |-> None]
      /\ golden' \in {golden, NoGolden}
  BY <1>1, CacheBoundsAssumption DEF Prune, TypeOK, keys
<1>3. PlaceInv'
  BY <1>1, <1>2 DEF PlaceInv, Stamped
<1>4. DiskInv'
  BY <1>1, <1>2 DEF DiskInv, Stamped, DiskPath, DirName, DiskFile
<1>5. OwnInv'
  BY <1>2 DEF OwnInv
<1>6. KeyInv'
  BY <1>1, <1>2 DEF KeyInv
<1>7. GoldenInv' /\ GoldenTakesTheKey'
  <2>1. CASE golden' = golden
    BY <1>1, <1>2, <2>1 DEF GoldenInv, GoldenTakesTheKey, HasTwin, Twins, Stamped
  <2>2. CASE golden' = NoGolden
    BY <2>2 DEF GoldenInv, GoldenTakesTheKey
  <2> QED BY <1>2, <2>1, <2>2
<1> QED BY <1>3, <1>4, <1>5, <1>6, <1>7 DEF Safe

LEMMA SafeStep ==
  ASSUME IInv, [Next]_vars
  PROVE  Safe'
<1>1. CASE Prune
  BY <1>1, PruneSafe
<1>2. ASSUME NEW p \in Commands, Begin(p)
      PROVE  Safe'
  BY <1>2, BeginSafe, KeygenSafe, RecordSafe DEF Begin
<1>3. ASSUME NEW p \in Commands, Download(p)
      PROVE  Safe'
  BY <1>3, DownloadSafe
<1>4. ASSUME NEW p \in Commands, Drive(p)
      PROVE  Safe'
  BY <1>4, MakeDiskSafe, RecordSafe, SpawnSafe, DriveSafe, FailSafe DEF Drive
<1>5. ASSUME NEW p \in Commands, End(p)
      PROVE  Safe'
  BY <1>5, DriveSafe, MoveGoldenSafe, FinishSafe, FailSafe DEF End
<1>6. CASE UNCHANGED vars
  BY <1>6 DEF IInv, Safe, vars, PlaceInv, DiskInv, OwnInv, KeyInv, GoldenInv,
     GoldenTakesTheKey, HasTwin, Twins, Stamped, DiskPath, DirName, DiskFile
<1> QED BY <1>1, <1>2, <1>3, <1>4, <1>5, <1>6 DEF Next

-----------------------------------------------------------------------------
(* Types *)

FileTypes ==
  /\ {blob, partial} \subseteq Inodes \cup {None}
  /\ data \in [Inodes -> [mix: SUBSET Sources, last: Command, whole: BOOLEAN]]

DiskTypes ==
  /\ {priv, pub} \subseteq Command
  /\ disk \in [Paths -> Commands \cup {None}]
  /\ vm \in [Commands -> Commands \cup {None}]
  /\ golden \in [disk: Command, key: Command, image: Image, vouched: BOOLEAN]
  /\ raced \in BOOLEAN
  /\ prunes \in 0..MaxPrunes
  /\ interrupts \in 0..MaxInterrupts

LEMMA TypeIs ==
  TypeOK <=> /\ FileTypes /\ DiskTypes /\ c \in Records
             /\ \A p \in Commands :
                  c[p].pc \in {"seed", "look", "source", "spawn", "boot", "wait", "move"}
                    => c[p].at \in Stamps
BY DEF TypeOK, FileTypes, DiskTypes, Records

LEMMA RecordTypes ==
  ASSUME TypeOK, [Next]_vars
  PROVE  c' \in Records
<1>1. c \in Records
  BY DEF TypeOK, Records
<1>2. CASE Prune \/ UNCHANGED vars
  BY <1>1, <1>2 DEF Prune, vars
<1>3. ASSUME NEW p \in Commands, Begin(p)
      PROVE  c' \in Records
  BY <1>1, <1>3, Moves, Changes DEF Begin, Goes, Others
<1>4. ASSUME NEW p \in Commands, Download(p)
      PROVE  c' \in Records
  BY <1>1, <1>4, Moves, Changes DEF Download, Goes, Others
<1>5. ASSUME NEW p \in Commands, Drive(p)
      PROVE  c' \in Records
  <2>1. \A l \in Places : To(p, l) => c' \in Records
    BY <1>1, ToKeeps DEF Goes, Others
  <2>2. CASE Spawn(p)
    BY <1>1, <2>1, <2>2, Moves DEF Spawn, Goes, Others, Places, Fallible
  <2>3. CASE QemuQuits(p)
    BY <1>1, <2>3 DEF QemuQuits
  <2> QED BY <1>1, <1>5, <2>2, <2>3, Moves, Changes DEF Drive, Goes, Others
<1>6. ASSUME NEW p \in Commands, End(p)
      PROVE  c' \in Records
  <2>1. \A l \in Places : To(p, l) => c' \in Records
    BY <1>1, ToKeeps DEF Goes, Others
  <2>2. CASE MoveGolden(p)
    BY <1>1, <2>1, <2>2, Moves DEF MoveGolden, Goes, Others, Places, Fallible
  <2>3. CASE Fails(p) \/ Interrupt(p)
    BY <1>1, <2>3, Moves DEF Fails, Interrupt, Goes, Others
  <2> QED BY <1>1, <1>6, <2>2, <2>3, Moves DEF End, Goes, Others
<1> QED BY <1>2, <1>3, <1>4, <1>5, <1>6 DEF Next

LEMMA FilesTyped ==
  ASSUME TypeOK, [Next]_vars
  PROVE  FileTypes'
<1> USE DEF files
<1>1. FileTypes /\ \A p \in Commands : c[p] \in CommandRecord
  BY DEF TypeOK, FileTypes
<1>2. CASE UNCHANGED files
  BY <1>1, <1>2 DEF FileTypes
<1>3. ASSUME NEW p \in Commands,
             RemoveStale(p) \/ ClearPartial(p) \/ HashPartial(p) \/ RenamePartial(p)
      PROVE  FileTypes'
  BY <1>1, <1>3 DEF FileTypes, RemoveStale, ClearPartial, HashPartial, RenamePartial
<1>4. ASSUME NEW p \in Commands, OpenPartial(p)
      PROVE  FileTypes'
  <2> DEFINE i == IF partial = None THEN p ELSE partial
             others == {q \in Commands : c[q].pc = "curl" /\ c[q].fd = i}
             m == {Source(q) : q \in others \cup {p}}
  <2>1. i \in Inodes
    BY <1>1 DEF FileTypes, Inodes
  <2>2. m \subseteq Sources
    BY DEF Source, Sources
  <2>3. /\ partial' = i /\ blob' = blob
        /\ data' = [data EXCEPT ![i] = [mix |-> m, last |-> p, whole |-> FALSE]]
    BY <1>4 DEF OpenPartial
  <2> HIDE DEF i, m
  <2> QED BY <1>1, <2>1, <2>2, <2>3 DEF FileTypes, Command
<1>5. ASSUME NEW p \in Commands, EndCurl(p)
      PROVE  FileTypes'
  <2> DEFINE i == c[p].fd
             w == data[i].whole \/ data[i].last = p
  <2>1. i \in Inodes \cup {None}
    BY <1>1 DEF CommandRecord
  <2>2. /\ UNCHANGED <<blob, partial>>
        /\ data' = [data EXCEPT ![i].whole = w]
    BY <1>5 DEF EndCurl
  <2>3. w \in BOOLEAN
    BY <1>1 DEF FileTypes
  <2> HIDE DEF i, w
  <2> QED BY <1>1, <2>1, <2>2, <2>3 DEF FileTypes
<1>6. CASE Prune \/ UNCHANGED vars
  BY <1>2, <1>6 DEF Prune, vars
<1>7. ASSUME NEW p \in Commands, Begin(p) \/ Drive(p) \/ End(p) \/ LookForSource(p)
      PROVE  UNCHANGED files
  BY <1>7 DEF Begin, Drive, End, Start, CheckHost, EnsureKey, KeygenLook, KeygenPrivate,
     KeygenPublic, MakeRunDir, MakeDisk, ReadPublicKey, Spawn, Settle, Boot, WaitForQemu,
     QemuQuits, UnlinkGolden, MoveGolden, Finish, Fails, Interrupt, LookForSource
<1> QED BY <1>2, <1>3, <1>4, <1>5, <1>6, <1>7 DEF Next, Download

LEMMA DisksTyped ==
  ASSUME IInv, [Next]_vars
  PROVE  DiskTypes'
<1> USE DEF keys, bounds
<1>1. TypeOK /\ DiskTypes /\ \A p \in Commands : c[p] \in CommandRecord
  BY DEF IInv, TypeOK, DiskTypes
<1>2. CASE UNCHANGED <<keys, disk, vm, golden, bounds>>
  BY <1>1, <1>2 DEF DiskTypes
<1>3. CASE Prune \/ UNCHANGED vars
  <2>1. NoGolden \in [disk: Command, key: Command, image: Image, vouched: BOOLEAN]
    BY DEF NoGolden, Command, Image
  <2>2. CASE UNCHANGED vars
    BY <1>2, <2>2 DEF vars
  <2>3. CASE Prune
    <3>1. golden' \in [disk: Command, key: Command, image: Image, vouched: BOOLEAN]
      BY <1>1, <2>1, <2>3 DEF Prune, DiskTypes
    <3> QED BY <1>1, <2>3, <3>1, CacheBoundsAssumption DEF Prune, DiskTypes
  <2> QED BY <1>3, <2>2, <2>3
<1>4. ASSUME NEW p \in Commands, Begin(p)
      PROVE  DiskTypes'
  <2>1. CASE KeygenLook(p)
    BY <1>1, <2>1 DEF KeygenLook, DiskTypes
  <2>2. CASE KeygenPrivate(p) \/ KeygenPublic(p)
    BY <1>1, <2>2 DEF KeygenPrivate, KeygenPublic, DiskTypes, Command
  <2>3. CASE Start(p) \/ CheckHost(p) \/ EnsureKey(p) \/ MakeRunDir(p)
    BY <1>2, <2>3 DEF Start, CheckHost, EnsureKey, MakeRunDir
  <2> QED BY <1>4, <2>1, <2>2, <2>3 DEF Begin
<1>5. ASSUME NEW p \in Commands, Download(p)
      PROVE  DiskTypes'
  BY <1>2, <1>5 DEF Download, LookForSource, RemoveStale, ClearPartial, OpenPartial,
     EndCurl, HashPartial, RenamePartial
<1>6. ASSUME NEW p \in Commands, Drive(p)
      PROVE  DiskTypes'
  <2>1. CASE MakeDisk(p)
    BY <1>1, <2>1 DEF MakeDisk, DiskTypes
  <2>2. CASE Spawn(p)
    <3>1. /\ UNCHANGED <<keys, disk, golden, bounds>>
          /\ vm' = vm \/ vm' = [vm EXCEPT ![p] = disk[DiskPath(p)]]
      BY <2>2 DEF Spawn
    <3>2. CASE DiskPath(p) \in Paths
      BY <1>1, <3>1, <3>2 DEF DiskTypes
    <3>3. CASE DiskPath(p) \notin Paths
      <4>1. Stamped(p) /\ c[p].kind # "check-host"
        BY <2>2 DEF Spawn, IInv, PlaceInv, Undirected
      <4> QED BY <1>1, <3>3, <4>1, PathInPaths
    <3> QED BY <3>2, <3>3
  <2>3. CASE QemuQuits(p)
    BY <1>1, <2>3 DEF QemuQuits, DiskTypes
  <2>4. CASE ReadPublicKey(p) \/ Settle(p) \/ Boot(p) \/ WaitForQemu(p)
    BY <1>2, <2>4 DEF ReadPublicKey, Settle, Boot, WaitForQemu
  <2> QED BY <1>6, <2>1, <2>2, <2>3, <2>4 DEF Drive
<1>7. ASSUME NEW p \in Commands, End(p)
      PROVE  DiskTypes'
  <2>1. CASE UnlinkGolden(p)
    BY <1>1, <2>1 DEF UnlinkGolden, DiskTypes, NoGolden, Command, Image
  <2>2. CASE MoveGolden(p)
    <3>1. Stamped(p) /\ c[p].kind # "check-host"
      BY <2>2 DEF MoveGolden, IInv, PlaceInv, Undirected
    <3>2. DiskPath(p) \in Paths
      BY <1>1, <3>1, PathInPaths
    <3>3. CASE disk[DiskPath(p)] = None
      BY <1>1, <2>2, <3>3 DEF MoveGolden, DiskTypes
    <3>4. CASE disk[DiskPath(p)] # None
      <4>1. PICK d \in Commands : d = disk[DiskPath(p)]
        BY <1>1, <3>2, <3>4 DEF DiskTypes
      <4>2. /\ golden' = [disk |-> d, key |-> c[d].key, image |-> c[d].image,
                          vouched |-> c[d].ready]
            /\ disk' = [disk EXCEPT ![DiskPath(p)] = None]
            /\ UNCHANGED <<keys, vm, bounds>>
        BY <2>2, <3>4, <4>1 DEF MoveGolden
      <4>3. /\ c[d].key \in Command /\ c[d].image \in Image
            /\ c[d].ready \in BOOLEAN /\ d \in Command
        BY <1>1 DEF CommandRecord, Command
      <4>4. golden' \in [disk: Command, key: Command, image: Image, vouched: BOOLEAN]
        BY <4>2, <4>3
      <4>5. disk' \in [Paths -> Commands \cup {None}]
        BY <1>1, <4>2 DEF DiskTypes
      <4> QED BY <1>1, <4>2, <4>4, <4>5 DEF DiskTypes
    <3> QED BY <3>3, <3>4
  <2>3. CASE Finish(p)
    BY <1>1, <2>3 DEF Finish, DiskTypes
  <2>4. CASE Fails(p)
    BY <1>1, <2>4 DEF Fails, DiskTypes
  <2>5. CASE Interrupt(p)
    BY <1>1, <2>5, CacheBoundsAssumption DEF Interrupt, DiskTypes
  <2> QED BY <1>7, <2>1, <2>2, <2>3, <2>4, <2>5 DEF End
<1> QED BY <1>3, <1>4, <1>5, <1>6, <1>7 DEF Next

-----------------------------------------------------------------------------
(* The source image *)

\* What every step of p does to the records.
LEMMA EachStep ==
  ASSUME IInv, NEW p \in Commands, Begin(p) \/ Download(p) \/ Drive(p) \/ End(p)
  PROVE  /\ Others(p)
         /\ Stamped(p) => c'[p].at = c[p].at /\ c'[p].kind = c[p].kind
         /\ Stamped(p) => c'[p].crossed = c[p].crossed
<1>1. c \in Records /\ TypeOK
  BY DEF IInv, TypeOK, Records
<1> DEFINE P == /\ Others(p)
                /\ Stamped(p) => c'[p].at = c[p].at /\ c'[p].kind = c[p].kind
                /\ Stamped(p) => c'[p].crossed = c[p].crossed
<1>2. \A l : Goes(p, l) => P
  BY DEF Goes
<1>3. \A l \in Places : To(p, l) => P
  BY <1>1, <1>2, ToKeeps
<1> SUFFICES P
  OBVIOUS
<1> HIDE DEF P
<1>4. CASE Start(p) \/ MakeRunDir(p)
  <2>1. ~Stamped(p)
    BY <1>4, NamesAssumption DEF Start, MakeRunDir, IInv, PlaceInv, Undirected, Stamped
  <2> QED BY <1>1, <1>4, <2>1, Changes DEF P
<1>5. CASE Begin(p) /\ ~(Start(p) \/ MakeRunDir(p))
  BY <1>1, <1>2, <1>5, Moves DEF Begin
<1>6. CASE Download(p)
  BY <1>1, <1>2, <1>6, Moves, Changes DEF Download
<1>7. CASE ReadPublicKey(p) \/ MakeDisk(p)
  BY <1>1, <1>2, <1>7, Changes DEF P
<1>8. CASE QemuQuits(p)
  BY <1>1, <1>8 DEF P, QemuQuits, Others, Keeps
<1>9. CASE Spawn(p) \/ MoveGolden(p) \/ Fails(p) \/ Interrupt(p)
  BY <1>1, <1>2, <1>3, <1>9, Moves
     DEF Spawn, MoveGolden, Fails, Interrupt, Places, Fallible
<1>10. CASE Settle(p) \/ Boot(p) \/ WaitForQemu(p) \/ UnlinkGolden(p) \/ Finish(p)
  BY <1>1, <1>2, <1>10, Moves, Changes
<1> QED BY <1>4, <1>5, <1>6, <1>7, <1>8, <1>9, <1>10 DEF Drive, End

\* PinInv of one command.
SourceOf(p) ==
  c[p].kind = "image-build" /\ ~c[p].crossed =>
    /\ c[p].pc = "rename" => Content(partial) = "pinned"
    /\ c[p].pc = "source" => Content(blob) = "pinned"
    /\ c[p].pc \in Drives \cup {"seed"} => c[p].image = "pinned"

\* The download is as it was, or better.
Quieter ==
  /\ UNCHANGED <<blob, partial>>
  /\ \A i \in Inodes \cup {None} : Content(i) = "pinned" => Content(i)' = "pinned"

LEMMA PinKeeps ==
  ASSUME TypeOK, PinInv, NEW p \in Commands, Others(p), Marks(p) \/ Quieter, SourceOf(p)'
  PROVE  PinInv'
<1>1. ASSUME NEW q \in Commands, q # p
      PROVE  SourceOf(q)'
  <2> SUFFICES ASSUME c'[q].kind = "image-build", ~c'[q].crossed
               PROVE  /\ c'[q].pc = "rename" => Content(partial)' = "pinned"
                      /\ c'[q].pc = "source" => Content(blob)' = "pinned"
                      /\ c'[q].pc \in Drives \cup {"seed"} => c'[q].image = "pinned"
    BY DEF SourceOf
  <2>1. /\ c'[q].pc = c[q].pc /\ c'[q].kind = c[q].kind /\ c'[q].image = c[q].image
    BY <1>1 DEF Others, Keeps
  <2>2. ~c[q].crossed
    BY <1>1 DEF Others, Keeps
  <2>3. /\ c[q].pc = "rename" => Content(partial) = "pinned"
        /\ c[q].pc = "source" => Content(blob) = "pinned"
        /\ c[q].pc \in Drives \cup {"seed"} => c[q].image = "pinned"
    BY <2>1, <2>2 DEF PinInv
  <2>4. CASE c[q].pc \notin {"rename", "source"}
    BY <2>1, <2>3, <2>4
  <2>5. CASE c[q].pc \in {"rename", "source"}
    <3>1. Quieter
      BY <1>1, <2>5 DEF Marks
    <3>2. {blob, partial} \subseteq Inodes \cup {None}
      BY DEF TypeOK
    <3>3. /\ Content(partial) = "pinned" => Content(partial)' = "pinned"
          /\ Content(blob) = "pinned" => Content(blob)' = "pinned"
      BY <3>1, <3>2 DEF Quieter, Content
    <3> QED BY <2>1, <2>3, <2>5, <3>3 DEF Drives
  <2> QED BY <2>4, <2>5
<1> QED BY <1>1 DEF PinInv, SourceOf

LEMMA PinGolden ==
  ASSUME IInv, NEW p \in Commands, Others(p), Dated,
         Stamped(p) => c'[p].crossed = c[p].crossed,
         golden' \in {golden, NoGolden}
  PROVE  GoldenIsPinned'
<1> SUFFICES ASSUME golden' # NoGolden, golden' = golden, golden.disk # Earlier,
                    ~(golden.image = "pinned" /\ golden.vouched)
             PROVE  (c[golden.disk].crossed \/ HasTwin(golden.disk))'
  BY DEF GoldenIsPinned
<1>1. PICK d \in Commands : d = golden.disk
  BY DEF IInv, GoldenInv
<1>2. Stamped(d)
  BY <1>1 DEF IInv, GoldenInv
<1>3. c[d].crossed \/ HasTwin(d)
  BY <1>1 DEF IInv, GoldenIsPinned
<1>4. CASE HasTwin(d)
  <2>1. HasTwin(d)'
    BY <1>2, <1>4, DatedKeeps
  <2> QED BY <1>1, <2>1 DEF HasTwin, Twins
<1>5. CASE c[d].crossed
  <2>1. c'[d].crossed
    BY <1>2, <1>5 DEF Others, Keeps
  <2> QED BY <1>1, <2>1
<1> QED BY <1>3, <1>4, <1>5

LEMMA SourceStep ==
  ASSUME IInv, NEW p \in Commands, Begin(p) \/ Download(p) \/ Drive(p) \/ End(p)
  PROVE  SourceOf(p)' /\ (Marks(p) \/ Quieter)
<1> USE DEF files, keys, bounds
<1>1. c \in Records /\ TypeOK /\ SourceOf(p) /\ PlaceOf(p)
  BY DEF IInv, TypeOK, Records, PinInv, SourceOf, PlaceInv, PlaceOf
<1>2. UNCHANGED files => Quieter
  BY DEF Quieter, Content
<1>3. c'[p].kind # "image-build" => SourceOf(p)'
  BY DEF SourceOf
<1>4. c'[p].pc \notin {"rename", "source", "seed"} \cup Drives => SourceOf(p)'
  BY DEF SourceOf
<1>5. \A l : Goes(p, l) /\ l \notin {"rename", "source", "seed"} \cup Drives
               => SourceOf(p)'
  BY <1>4 DEF Goes
<1>6. ASSUME c[p].pc \in Drives \cup {"seed"},
             c'[p].pc \in Drives, c'[p].kind = c[p].kind, c'[p].image = c[p].image,
             c'[p].crossed = c[p].crossed
      PROVE  SourceOf(p)'
  BY <1>1, <1>6 DEF SourceOf, Drives
<1>7. CASE Begin(p)
  <2>1. Quieter
    BY <1>2, <1>7 DEF Begin, Start, CheckHost, EnsureKey, KeygenLook, KeygenPrivate,
       KeygenPublic, MakeRunDir
  <2>2. CASE Start(p)
    <3>1. c'[p].pc \in {"host", "done"}
      BY <1>1, <2>2, Changes
    <3> QED BY <1>4, <2>1, <3>1 DEF Drives
  <2>3. CASE MakeRunDir(p)
    <3>1. c[p].kind \in AllKinds
      BY <1>1 DEF TypeOK, CommandRecord
    <3>2. c'[p].kind = c[p].kind /\ c'[p].pc = AfterMkdir[c[p].kind]
      BY <1>1, <2>3, Changes
    <3>3. c'[p].kind # "image-build" \/ c'[p].pc = "look"
      BY <3>1, <3>2 DEF AfterMkdir
    <3> QED BY <1>3, <1>4, <2>1, <3>3 DEF Drives
  <2>4. CASE ~(Start(p) \/ MakeRunDir(p))
    <3>1. PICK l \in {"key", "done", "keygen", "keypriv", "keypub", "mkdir"} : Goes(p, l)
      BY <1>1, <1>7, <2>4, Moves DEF Begin, AfterKey
    <3> QED BY <1>5, <2>1, <3>1 DEF Drives
  <2> QED BY <2>2, <2>3, <2>4
<1>8. CASE Download(p)
  <2>1. CASE LookForSource(p)
    <3>1. Quieter
      BY <1>2, <2>1 DEF LookForSource
    <3>2. PICK l \in {"source", "open", "clear", "stale"} : Goes(p, l)
      BY <1>1, <2>1, Moves
    <3>3. CASE l # "source"
      BY <1>5, <3>1, <3>2, <3>3 DEF Drives
    <3>4. CASE l = "source" /\ c[p].kind = "image-build"
      <4>1. Content(blob) = "pinned"
        <5> SUFFICES ASSUME Content(blob) # "pinned" PROVE FALSE
          OBVIOUS
        <5>1. To(p, "clear") \/ To(p, "stale")
          BY <2>1, <3>4 DEF LookForSource
        <5>2. c'[p].pc \in {"clear", "stale"}
          BY <1>1, <5>1, ToKeeps DEF Goes, Places, Fallible
        <5> QED BY <3>2, <3>4, <5>2 DEF Goes
      <4>2. Content(blob)' = "pinned"
        BY <2>1, <4>1 DEF LookForSource, Content
      <4> QED BY <3>1, <3>2, <3>4, <4>2 DEF SourceOf, Goes, Drives
    <3>5. CASE c[p].kind # "image-build"
      BY <1>3, <3>1, <3>2, <3>5 DEF Goes
    <3> QED BY <3>3, <3>4, <3>5
  <2>2. CASE RemoveStale(p) \/ ClearPartial(p) \/ OpenPartial(p)
    <3>1. \A l \in {"clear", "open"} : ToCrossing(p, l) => Marks(p)
      BY <1>1, ToKeeps DEF Places, Fallible
    <3>2. Marks(p)
      BY <1>1, <2>2, <3>1, Changes DEF RemoveStale, ClearPartial
    <3>3. PICK l \in {"clear", "open", "curl"} : Goes(p, l)
      BY <1>1, <2>2, Moves, Changes
    <3> QED BY <1>5, <3>2, <3>3 DEF Drives
  <2>3. CASE EndCurl(p)
    <3>1. Quieter
      <4>1. /\ UNCHANGED <<blob, partial>> /\ c[p].fd \in Inodes \cup {None}
            /\ data' = [data EXCEPT ![c[p].fd].whole = @ \/ data[c[p].fd].last = p]
        BY <1>1, <2>3 DEF EndCurl, TypeOK, CommandRecord
      <4>2. ASSUME NEW i \in Inodes, data[i].whole
            PROVE  data'[i].mix = data[i].mix /\ data'[i].whole
        <5> DEFINE w == data[i].whole \/ data[i].last = p
        <5>1. data[i] \in [mix: SUBSET Sources, last: Command, whole: BOOLEAN]
          BY <1>1 DEF TypeOK
        <5>2. data'[i] = data[i] \/ data'[i] = [data[i] EXCEPT !.whole = w]
          BY <1>1, <4>1 DEF TypeOK
        <5>3. w = TRUE
          BY <4>2
        <5>4. CASE data'[i] = data[i]
          BY <4>2, <5>4
        <5>5. CASE data'[i] = [data[i] EXCEPT !.whole = w]
          <6> HIDE DEF w
          <6>1. data'[i].mix = data[i].mix /\ data'[i].whole = w
            BY <5>1, <5>5
          <6> QED BY <5>3, <6>1
        <5> QED BY <5>2, <5>4, <5>5
      <4>3. ASSUME NEW i \in Inodes \cup {None}, Content(i) = "pinned"
            PROVE  Content(i)' = "pinned"
        <5>1. i # None /\ data[i].whole /\ Cardinality(data[i].mix) = 1
          BY <4>3 DEF Content
        <5>2. data'[i].mix = data[i].mix /\ data'[i].whole
          BY <4>2, <5>1
        <5> QED BY <4>3, <5>1, <5>2 DEF Content
      <4> QED BY <4>1, <4>3 DEF Quieter
    <3>2. Goes(p, IF c[p].kind = "spike" THEN "rename" ELSE "hash")
      BY <1>1, <2>3, Changes
    <3>3. CASE c[p].kind = "spike"
      BY <1>3, <3>1, <3>2, <3>3 DEF Goes
    <3>4. CASE c[p].kind # "spike"
      <4>1. Goes(p, "hash")
        BY <3>2, <3>4
      <4> QED BY <1>5, <3>1, <4>1 DEF Drives
    <3> QED BY <3>3, <3>4
  <2>4. CASE HashPartial(p)
    <3>1. CASE Content(partial) = "pinned"
      <4>1. UNCHANGED files /\ To(p, "rename")
        BY <2>4, <3>1 DEF HashPartial
      <4>2. Goes(p, "rename")
        BY <1>1, <4>1, ToKeeps DEF Places
      <4>3. Content(partial)' = "pinned"
        BY <3>1, <4>1 DEF Content
      <4> QED BY <1>2, <4>1, <4>2, <4>3 DEF SourceOf, Goes, Drives
    <3>2. CASE Content(partial) # "pinned"
      <4>1. ToCrossing(p, "done")
        BY <2>4, <3>2 DEF HashPartial
      <4>2. Goes(p, "done") /\ Marks(p)
        BY <1>1, <4>1, ToKeeps DEF Places
      <4> QED BY <1>5, <4>2 DEF Drives
    <3> QED BY <3>1, <3>2
  <2>5. CASE RenamePartial(p)
    <3>1. CASE partial = None
      <4>1. UNCHANGED files /\ Raise(p)
        BY <2>5, <3>1 DEF RenamePartial
      <4>2. Goes(p, "done")
        BY <1>1, <4>1, Moves
      <4> QED BY <1>2, <1>5, <4>1, <4>2 DEF Drives
    <3>2. CASE partial # None
      <4>1. /\ c[p].pc = "rename" /\ blob' = partial /\ data' = data
            /\ ToCrossing(p, "source")
        BY <2>5, <3>2 DEF RenamePartial
      <4>2. Goes(p, "source") /\ Marks(p)
        BY <1>1, <4>1, ToKeeps DEF Places, Fallible
      <4>3. Content(partial) = "pinned" => Content(blob)' = "pinned"
        BY <4>1 DEF Content
      <4>4. SourceOf(p)'
        BY <1>1, <4>1, <4>2, <4>3 DEF SourceOf, Goes, Drives
      <4> QED BY <4>2, <4>4
    <3> QED BY <3>1, <3>2
  <2> QED BY <1>8, <2>1, <2>2, <2>3, <2>4, <2>5 DEF Download
<1>9. CASE Drive(p)
  <2>1. Quieter
    BY <1>2, <1>9 DEF Drive, MakeDisk, ReadPublicKey, Spawn, Settle, Boot, WaitForQemu,
       QemuQuits
  <2>2. CASE MakeDisk(p)
    <3>1. CASE Goes(p, "done")
      BY <1>5, <2>1, <3>1 DEF Drives
    <3>2. CASE ~Goes(p, "done") /\ c[p].kind = "image-build"
      <4>1. /\ c'[p].pc = "seed" /\ c'[p].crossed = c[p].crossed
            /\ c'[p].image = Content(blob) /\ c[p].pc = "source"
        BY <1>1, <2>2, <3>2, Changes DEF MakeDisk
      <4>2. SourceOf(p)'
        BY <1>1, <3>2, <4>1 DEF SourceOf, Drives
      <4> QED BY <2>1, <4>2
    <3>3. CASE ~Goes(p, "done") /\ c[p].kind # "image-build"
      BY <1>1, <1>3, <2>1, <2>2, <3>3, Changes
    <3> QED BY <3>1, <3>2, <3>3
  <2>3. CASE ReadPublicKey(p)
    <3>1. CASE Goes(p, "done")
      BY <1>5, <2>1, <3>1 DEF Drives
    <3>2. CASE ~Goes(p, "done")
      <4>1. /\ c'[p].pc = (IF c[p].kind = "spike" THEN "look" ELSE "spawn")
            /\ c'[p].kind = c[p].kind /\ c'[p].image = c[p].image
            /\ c'[p].crossed = c[p].crossed /\ c[p].pc = "seed"
        BY <1>1, <2>3, <3>2, Changes DEF ReadPublicKey
      <4>2. CASE c[p].kind = "spike"
        BY <1>3, <2>1, <4>1, <4>2
      <4>3. CASE c[p].kind # "spike"
        BY <1>6, <2>1, <4>1, <4>3 DEF Drives
      <4> QED BY <4>2, <4>3
    <3> QED BY <3>1, <3>2
  <2>4. CASE Spawn(p) \/ Settle(p) \/ Boot(p) \/ WaitForQemu(p)
    <3>1. c[p].pc \in Drives
      BY <2>4 DEF Spawn, Settle, Boot, WaitForQemu, Drives
    <3>2. PICK l \in {"done", "settle", "boot", "wait", "finish", "unlink"} : Goes(p, l)
      <4>1. Spawn(p) => Goes(p, "done") \/ Goes(p, "settle")
        BY <1>1, Moves, ToKeeps DEF Spawn, Places, Fallible
      <4> QED BY <1>1, <2>4, <4>1, Moves, Changes
    <3>3. CASE l \in {"done", "finish"}
      BY <1>5, <2>1, <3>2, <3>3 DEF Drives
    <3>4. CASE l \notin {"done", "finish"}
      BY <1>6, <2>1, <3>1, <3>2, <3>4 DEF Goes, Drives
    <3> QED BY <3>3, <3>4
  <2>5. CASE QemuQuits(p)
    <3>1. UNCHANGED <<c, blob, partial, data>>
      BY <2>5 DEF QemuQuits
    <3> QED BY <1>1, <2>1, <3>1 DEF SourceOf, Content
  <2> QED BY <1>9, <2>2, <2>3, <2>4, <2>5 DEF Drive
<1>10. CASE End(p)
  <2>1. Quieter
    BY <1>2, <1>10 DEF End, UnlinkGolden, MoveGolden, Finish, Fails, Interrupt
  <2>2. CASE UnlinkGolden(p)
    <3>1. Goes(p, "move") /\ c[p].pc = "unlink"
      BY <1>1, <2>2, Moves DEF UnlinkGolden
    <3> QED BY <1>6, <2>1, <3>1 DEF Goes, Drives
  <2>3. CASE ~UnlinkGolden(p)
    <3>1. Goes(p, "done") \/ Goes(p, "finish")
      BY <1>1, <1>10, <2>3, Moves, ToKeeps
      DEF End, MoveGolden, Fails, Interrupt, Places, Fallible
    <3> QED BY <1>5, <2>1, <3>1 DEF Drives
  <2> QED BY <2>2, <2>3
<1> QED BY <1>7, <1>8, <1>9, <1>10

\* A golden a build makes is its own or a twin's, and its image is what PinInv
\* says.
LEMMA PinStep ==
  ASSUME IInv, [Next]_vars
  PROVE  PinInv' /\ GoldenIsPinned'
<1>1. CASE Prune \/ UNCHANGED vars
  <2>1. UNCHANGED <<blob, partial, data, c>> /\ golden' \in {golden, NoGolden}
    BY <1>1 DEF Prune, vars, files
  <2>2. PinInv'
    BY <2>1 DEF IInv, PinInv, Content
  <2>3. CASE golden' = golden
    BY <2>1, <2>2, <2>3 DEF IInv, GoldenIsPinned, HasTwin, Twins
  <2>4. CASE golden' = NoGolden
    BY <2>2, <2>4 DEF GoldenIsPinned
  <2> QED BY <2>1, <2>3, <2>4
<1>2. ASSUME NEW p \in Commands, Begin(p) \/ Download(p) \/ Drive(p) \/ End(p)
      PROVE  PinInv' /\ GoldenIsPinned'
  <2>1. /\ Others(p)
        /\ Stamped(p) => c'[p].at = c[p].at /\ c'[p].kind = c[p].kind
        /\ Stamped(p) => c'[p].crossed = c[p].crossed
    BY <1>2, EachStep
  <2>2. Dated
    BY <2>1, GoesDated
  <2>3. PinInv'
    <3>1. SourceOf(p)' /\ (Marks(p) \/ Quieter)
      BY <1>2, SourceStep
    <3> QED BY <2>1, <3>1, PinKeeps DEF IInv
  <2>4. CASE golden' \in {golden, NoGolden}
    BY <2>1, <2>2, <2>3, <2>4, PinGolden
  <2>5. CASE golden' \notin {golden, NoGolden}
    <3>1. MoveGolden(p)
      BY <1>2, <2>5 DEF Begin, Download, Drive, End, Start, CheckHost, EnsureKey,
         KeygenLook, KeygenPrivate, KeygenPublic, MakeRunDir, LookForSource, RemoveStale,
         ClearPartial, OpenPartial, EndCurl, HashPartial, RenamePartial, MakeDisk,
         ReadPublicKey, Spawn, Settle, Boot, WaitForQemu, QemuQuits, UnlinkGolden,
         Finish, Fails, Interrupt
    <3>2. /\ TypeOK /\ PlaceInv /\ DiskInv /\ PinInv
      BY DEF IInv
    <3>3. /\ c[p].pc = "move" /\ c[p].kind = "image-build" /\ c[p].ready /\ Stamped(p)
      BY <3>1, <3>2 DEF MoveGolden, PlaceInv, Undirected
    <3>4. DiskPath(p) \in Paths
      BY <3>2, <3>3, PathInPaths
    <3>5. PICK d \in Commands : d = disk[DiskPath(p)]
      BY <2>5, <3>1, <3>2, <3>4 DEF MoveGolden, TypeOK
    <3>6. golden' = [disk |-> d, key |-> c[d].key, image |-> c[d].image,
                     vouched |-> c[d].ready]
      BY <2>5, <3>1, <3>5 DEF MoveGolden
    <3>7. Stamped(d) /\ DiskPath(d) = DiskPath(p)
      BY <3>2, <3>4, <3>5, NamesAssumption DEF DiskInv
    <3>8. d = p \/ HasTwin(d)
      BY <3>2, <3>7, SamePath DEF HasTwin
    <3>9. CASE HasTwin(d)
      <4>1. HasTwin(d)'
        BY <2>2, <3>7, <3>9, DatedKeeps
      <4>2. HasTwin(golden.disk)'
        BY <3>6, <4>1 DEF HasTwin, Twins
      <4> QED BY <2>3, <4>2 DEF GoldenIsPinned
    <3>10. CASE d = p
      <4>1. c[p].crossed \/ c[p].image = "pinned"
        BY <3>2, <3>3 DEF PinInv, Drives
      <4>2. c[p].crossed => c'[p].crossed
        BY <2>1, <3>3
      <4>3. /\ golden'.disk = p /\ golden'.image = c[p].image
            /\ golden'.vouched = c[p].ready
        BY <3>6, <3>10
      <4> QED BY <2>3, <3>3, <4>1, <4>2, <4>3 DEF GoldenIsPinned
    <3> QED BY <3>8, <3>9, <3>10
  <2> QED BY <2>3, <2>4, <2>5
<1> QED BY <1>1, <1>2 DEF Next

-----------------------------------------------------------------------------
(* The theorems *)

LEMMA InitIInv ==
  ASSUME Init
  PROVE  IInv
<1>1. Idle \in CommandRecord /\ Idle.pc = "idle" /\ Idle.at = NoStamp
      /\ Idle.key = None
  BY DEF Idle, CommandRecord, Places, Fallible, AllKinds, Command, Image
<1>2. /\ c = [p \in Commands |-> Idle] /\ disk = [f \in Paths |-> None]
      /\ vm = [p \in Commands |-> None] /\ raced = FALSE /\ prunes = 0
      /\ interrupts = 0
  BY DEF Init
<1>3. /\ priv \in {None, Earlier} /\ pub \in {None, priv}
      /\ golden = NoGolden \/ (golden = OldGolden /\ pub = Earlier /\ priv = Earlier)
  BY NamesAssumption DEF Init, OldGolden
<1>4. FileTypes
  <2>1. PICK s \in Sources :
          data = [i \in Inodes |-> [mix |-> IF i = OldBlob THEN {s} ELSE {},
                                   last |-> None, whole |-> i = OldBlob]]
    BY DEF Init
  <2>2. {blob, partial} \subseteq Inodes \cup {None}
    BY DEF Init, Inodes
  <2> QED BY <2>1, <2>2 DEF FileTypes, Command
<1>5. DiskTypes
  <2>1. golden \in [disk: Command, key: Command, image: Image, vouched: BOOLEAN]
    <3> DEFINE G == [disk: Command, key: Command, image: Image, vouched: BOOLEAN]
    <3>1. NoGolden \in G
      BY DEF NoGolden, Command, Image
    <3>2. OldGolden \in G
      BY DEF OldGolden, Command, Image, Sources
    <3> HIDE DEF G
    <3>3. golden \in G
      BY <1>3, <3>1, <3>2
    <3> QED BY <3>3 DEF G
  <2>2. {priv, pub} \subseteq Command
    BY <1>3 DEF Command
  <2>3. /\ disk \in [Paths -> Commands \cup {None}]
        /\ vm \in [Commands -> Commands \cup {None}]
    BY <1>2
  <2>4. raced \in BOOLEAN /\ prunes \in 0..MaxPrunes /\ interrupts \in 0..MaxInterrupts
    <3>1. 0 \in 0..MaxPrunes /\ 0 \in 0..MaxInterrupts
      BY CacheBoundsAssumption
    <3>2. raced \in BOOLEAN
      BY <1>2
    <3> QED BY <1>2, <3>1, <3>2
  <2> QED BY <2>1, <2>2, <2>3, <2>4 DEF DiskTypes
<1>6. TypeOK
  BY <1>1, <1>2, <1>4, <1>5, TypeIs DEF Records
<1>7. PlaceInv
  BY <1>1, <1>2 DEF PlaceInv, Undirected, Drives
<1>8. DiskInv /\ OwnInv
  BY <1>1, <1>2 DEF DiskInv, OwnInv, Drives
<1>9. KeyInv
  BY <1>1, <1>2, <1>3 DEF KeyInv
<1>10. GoldenInv /\ GoldenTakesTheKey
  BY <1>3 DEF GoldenInv, GoldenTakesTheKey, OldGolden
<1>11. PinInv /\ GoldenIsPinned
  BY <1>1, <1>2, <1>3 DEF PinInv, GoldenIsPinned, OldGolden, Drives
<1> QED BY <1>6, <1>7, <1>8, <1>9, <1>10, <1>11 DEF IInv

\* IInv, and with it GoldenTakesTheKey and what the other properties rest on,
\* holds in every state: no interleaving of commands sharing $CACHE leaves it.
THEOREM Inductive == Spec => []IInv
<1>1. Init => IInv
  BY InitIInv
<1>2. IInv /\ [Next]_vars => IInv'
  <2> SUFFICES ASSUME IInv, [Next]_vars PROVE IInv'
    OBVIOUS
  <2>1. Safe'
    BY SafeStep
  <2>2. TypeOK'
    <3>1. FileTypes' /\ DiskTypes' /\ c' \in Records
      BY FilesTyped, DisksTyped, RecordTypes DEF IInv
    <3>2. \A p \in Commands :
            c'[p].pc \in {"seed", "look", "source", "spawn", "boot", "wait", "move"}
              => c'[p].at \in Stamps
      BY <2>1 DEF Safe, PlaceInv, Undirected, Stamped
    <3> QED BY <3>1, <3>2 DEF TypeOK, FileTypes, DiskTypes, Records
  <2>3. PinInv' /\ GoldenIsPinned'
    BY PinStep
  <2> QED BY <2>1, <2>2, <2>3 DEF IInv, Safe
<1> QED BY <1>1, <1>2, PTL DEF Spec

\* Each variable of the cache's model keeps its type.
THEOREM TypeCorrect == Spec => []TypeOK
<1>1. IInv => TypeOK
  BY DEF IInv
<1> QED BY <1>1, Inductive, PTL

\* A golden lets in the key the cache holds (ensure_ssh_key, build_live),
\* unless two ssh-keygen ran at once or two builds shared a directory.
THEOREM GoldenTakesTheKeyHolds == Spec => []GoldenTakesTheKey
<1>1. IInv => GoldenTakesTheKey
  BY DEF IInv
<1> QED BY <1>1, Inductive, PTL

\* A golden comes from the pinned image and was set up to the end
\* (bootstrap.sh, build_live), unless the download changed under the build's
\* feet or two builds shared a directory.
THEOREM GoldenIsPinnedHolds == Spec => []GoldenIsPinned
<1>1. IInv => GoldenIsPinned
  BY DEF IInv
<1> QED BY <1>1, Inductive, PTL

\* From the spawn to the move a command's disk stays under its name
\* (run_dir, cleanup), twins and image-prune apart.
THEOREM OwnDiskHolds == Spec => []OwnDisk
<1>1. IInv => OwnDisk
  BY DEF IInv, OwnInv, OwnDisk, Drives
<1> QED BY <1>1, Inductive, PTL

\* No QEMU has the golden open (build_live's wait before the move).
THEOREM GoldenAtRestHolds == Spec => []GoldenAtRest
<1>1. IInv => GoldenAtRest
  <2> SUFFICES ASSUME IInv, golden # NoGolden, ~HasTwin(golden.disk),
                      NEW q \in Commands, vm[q] = golden.disk
               PROVE  FALSE
    BY DEF GoldenAtRest, Locked
  <2>1. TypeOK /\ DiskInv /\ GoldenInv
    BY DEF IInv
  <2>2. golden.disk \in Commands /\ vm[golden.disk] = None
    BY <2>1, NamesAssumption DEF GoldenInv, TypeOK
  <2>3. PICK d \in Commands : d = golden.disk
    BY <2>2
  <2>4. d # None /\ DiskPath(d) = DiskPath(q)
    BY <2>1, <2>3, NamesAssumption DEF DiskInv
  <2>5. d = q \/ HasTwin(d)
    BY <2>1, <2>4, SamePath DEF HasTwin
  <2> QED BY <2>2, <2>3, <2>4, <2>5
<1> QED BY <1>1, Inductive, PTL

\* A build unlinks the old golden only with its own disk ready to take the
\* place (build_live), SIGINT, image-prune and twins apart.
THEOREM OldGoldenSurvivesHolds == Spec => OldGoldenSurvives
<1> DEFINE A == golden # NoGolden /\ golden' = NoGolden /\ prunes' = prunes
                => \E p \in Commands :
                     /\ c'[p].pc = "move" /\ c[p].ready
                     /\ disk[DiskPath(p)] # None \/ prunes > 0 \/ HasTwin(p)
<1>1. IInv /\ [Next]_vars => [A]_vars
  <2> SUFFICES ASSUME IInv, [Next]_vars, golden # NoGolden, golden' = NoGolden,
                      prunes' = prunes
               PROVE  \E p \in Commands :
                        /\ c'[p].pc = "move" /\ c[p].ready
                        /\ disk[DiskPath(p)] # None \/ prunes > 0 \/ HasTwin(p)
    OBVIOUS
  <2>0. ~Prune
    BY CacheBoundsAssumption DEF IInv, TypeOK, Prune
  <2>1. PICK p \in Commands : UnlinkGolden(p) \/ MoveGolden(p)
    BY <2>0 DEF Next, vars, Begin, Download, Drive, End, Start, CheckHost, EnsureKey,
       KeygenLook, KeygenPrivate, KeygenPublic, MakeRunDir, LookForSource, RemoveStale,
       ClearPartial, OpenPartial, EndCurl, HashPartial, RenamePartial, MakeDisk,
       ReadPublicKey, Spawn, Settle, Boot, WaitForQemu, QemuQuits, Finish, Fails,
       Interrupt
  <2>2. TypeOK /\ PlaceInv /\ OwnInv /\ c \in Records
    BY DEF IInv, TypeOK, Records
  <2>3. UnlinkGolden(p)
    <3> SUFFICES ASSUME MoveGolden(p) PROVE FALSE
      BY <2>1
    <3>1. golden'.disk = disk[DiskPath(p)] /\ disk[DiskPath(p)] # None
      BY DEF MoveGolden
    <3> QED BY <3>1 DEF NoGolden
  <2>4. c[p].pc = "unlink" /\ c'[p].pc = "move"
    BY <2>2, <2>3, Moves DEF UnlinkGolden, Goes
  <2>5. c[p].ready
    BY <2>2, <2>4 DEF PlaceInv
  <2>6. prunes = 0 /\ ~HasTwin(p) => disk[DiskPath(p)] = p
    BY <2>2, <2>4 DEF OwnInv, Drives
  <2>7. prunes = 0 \/ prunes > 0
    BY <2>2, CacheBoundsAssumption DEF TypeOK
  <2>8. p # None
    BY NamesAssumption
  <2> QED BY <2>4, <2>5, <2>6, <2>7, <2>8
<1> HIDE DEF A
<1>2. Spec => [][A]_vars
  BY <1>1, Inductive, PTL DEF Spec
<1> QED BY <1>2 DEF OldGoldenSurvives, A
=============================================================================
