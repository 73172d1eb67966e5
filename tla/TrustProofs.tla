----------------------------- MODULE TrustProofs -----------------------------
(***************************************************************************)
(* Proofs about RuntimeTrust for any set of processes, generations, files  *)
(* and releases, and any number of changes by others.                      *)
(*                                                                         *)
(* RtInv is inductive.  It says what every handle keeps true: a            *)
(* publisher's open package files are the release its manifest names, the  *)
(* files it has reopened in its generation are copies of them, and a       *)
(* runtime's selector and files stay what it verified.                     *)
(* SelectedRuntimeAuthentic alone is not inductive: the selector is        *)
(* written from what the publisher believes of its generation many steps   *)
(* after it looked.  Frame shows that no step of another process or        *)
(* program disturbs what a process holds; each action then shows the       *)
(* types, the process that moves and the selection.                        *)
(*                                                                         *)
(* Proofs about DriverTransaction for any number of preparations side by   *)
(* side, any GPUs and packages, and any answers of the server.             *)
(*                                                                         *)
(* The preparations share one temporary file and take no lock.  DtInv is   *)
(* inductive: a preparation whose download is open created the file that   *)
(* is there, a file whose creator lives is still going to be deleted by    *)
(* it, and nothing is ever renamed, because whoever renames has its own    *)
(* handle open.                                                            *)
(***************************************************************************)
EXTENDS RuntimeTrust, DriverTransaction, TLAPS

USE DEF RtGo, RtHold
USE DEF DtGo

-----------------------------------------------------------------------------
(* Keeping a handle replaces one field of one process, within its type.  *)
(* The lemmas are one per field.                                           *)

HandlesOf(p, m) ==
  /\ rtMem' \in [RtProcesses -> RtHandles]
  /\ rtMem'[p] = m
  /\ \A q \in RtProcesses \ {p} : rtMem'[q] = rtMem[q]

LEMMA HoldPackage ==
  ASSUME RtTypeOK, NEW p \in RtProcesses, NEW x \in SUBSET TreeFiles, RtHold(p, "package", x)
  PROVE  /\ HandlesOf(p, [rtMem[p] EXCEPT !.package = x])
         /\ rtMem'[p].package = x
         /\ rtMem'[p].gen = rtMem[p].gen /\ rtMem'[p].tree = rtMem[p].tree
         /\ rtMem'[p].file = rtMem[p].file /\ rtMem'[p].image = rtMem[p].image
BY DEF RtTypeOK, RtHandles, HandlesOf

LEMMA HoldTree ==
  ASSUME RtTypeOK, NEW p \in RtProcesses, NEW x \in SUBSET TreeFiles, RtHold(p, "tree", x)
  PROVE  /\ HandlesOf(p, [rtMem[p] EXCEPT !.tree = x])
         /\ rtMem'[p].tree = x
         /\ rtMem'[p].package = rtMem[p].package /\ rtMem'[p].gen = rtMem[p].gen
         /\ rtMem'[p].file = rtMem[p].file /\ rtMem'[p].image = rtMem[p].image
BY DEF RtTypeOK, RtHandles, HandlesOf

LEMMA HoldGeneration ==
  ASSUME RtTypeOK, NEW p \in RtProcesses, NEW x \in Generations \cup {NoGeneration}, RtHold(p, "gen", x)
  PROVE  /\ HandlesOf(p, [rtMem[p] EXCEPT !.gen = x])
         /\ rtMem'[p].gen = x
         /\ rtMem'[p].package = rtMem[p].package /\ rtMem'[p].tree = rtMem[p].tree
         /\ rtMem'[p].file = rtMem[p].file /\ rtMem'[p].image = rtMem[p].image
BY DEF RtTypeOK, RtHandles, HandlesOf

LEMMA HoldImage ==
  ASSUME RtTypeOK, NEW p \in RtProcesses, NEW x \in Generations \cup {NoGeneration}, RtHold(p, "image", x)
  PROVE  /\ HandlesOf(p, [rtMem[p] EXCEPT !.image = x])
         /\ rtMem'[p].image = x
         /\ rtMem'[p].package = rtMem[p].package /\ rtMem'[p].gen = rtMem[p].gen
         /\ rtMem'[p].tree = rtMem[p].tree /\ rtMem'[p].file = rtMem[p].file
BY DEF RtTypeOK, RtHandles, HandlesOf

LEMMA HoldFile ==
  ASSUME RtTypeOK, NEW p \in RtProcesses, NEW x \in TreeFiles \cup {NoContent}, RtHold(p, "file", x)
  PROVE  /\ HandlesOf(p, [rtMem[p] EXCEPT !.file = x])
         /\ rtMem'[p].file = x
         /\ rtMem'[p].package = rtMem[p].package /\ rtMem'[p].gen = rtMem[p].gen
         /\ rtMem'[p].tree = rtMem[p].tree /\ rtMem'[p].image = rtMem[p].image
BY DEF RtTypeOK, RtHandles, HandlesOf

(* Only handles change hands: the types of everything else stay. *)
LEMMA OnlyHandles ==
  ASSUME RtTypeOK, UNCHANGED <<rtPackage, rtTrees, rtSelector, rtRoot, rtLock, rtLate, rtTampered>>,
         NEW p, NEW m, HandlesOf(p, m), rtPc' \in [RtProcesses -> RtPoints]
  PROVE  RtTypeOK'
BY DEF RtTypeOK, HandlesOf

-----------------------------------------------------------------------------
(* What a step may do around a process that does not move. *)

RtSame(q) == rtPc'[q] = rtPc[q] /\ rtMem'[q] = rtMem[q]

(* A step that changes no file q holds, no selector q holds open, and      *)
(* nothing the publication lock protects while q has it.                   *)
RtSafe(q) ==
  /\ \A f \in rtMem[q].package : rtPackage'[f] = rtPackage[f]
  /\ rtLock = {q} => rtLock' = {q} /\ rtSelector' = rtSelector
  /\ rtPc[q] \in {"walk", "retained"} => rtSelector' = rtSelector
  /\ rtPc[q] \in PublishingPoints \cup {"retained"} =>
       \A f \in rtMem[q].tree : rtTrees'[rtMem[q].gen][f] = rtTrees[rtMem[q].gen][f]

(* What process q relies on survives the steps of the others. *)
LEMMA RtFrame ==
  ASSUME RtTypeOK, NEW q \in RtProcesses, RtProcessInv(q), RtSame(q), RtSafe(q)
  PROVE  RtProcessInv(q)'
<1>1. PackageOpen(q)'
  BY DEF RtProcessInv, PackageOpen, RtSame, RtSafe, RtTypeOK, AuthenticPoints
<1>2. GenerationBuilt(q)'
  <2>1. (rtPc[q] \in PublishingPoints \cup {"locked"} => rtLock = {q})'
    BY DEF RtProcessInv, GenerationBuilt, RtSame, RtSafe
  <2>2. ASSUME rtPc[q] \in PublishingPoints
        PROVE  /\ rtMem[q].gen \in Generations /\ rtSelector'.gen # rtMem[q].gen
               /\ \A f \in rtMem[q].tree : rtTrees'[rtMem[q].gen][f] = rtPackage'[f]
    <3>1. rtMem[q].package = TreeFiles /\ rtMem[q].tree \subseteq TreeFiles
      BY <2>2 DEF RtProcessInv, PackageOpen, PublishingPoints, AuthenticPoints, RtTypeOK,
                RtHandles
    <3> QED BY <2>2, <3>1 DEF RtProcessInv, GenerationBuilt, RtSafe
  <2> QED BY <2>1, <2>2 DEF RtProcessInv, GenerationBuilt, RtSame
<1>3. RuntimeHeld(q)'
  BY DEF RtProcessInv, RuntimeHeld, RtSame, RtSafe
<1> QED BY <1>1, <1>2, <1>3 DEF RtProcessInv

(* A step of p keeps the invariant when p and the selection do, and the    *)
(* others are left alone.                                                  *)
LEMMA RtStepOf ==
  ASSUME RtInv, NEW p \in RtProcesses, RtTypeOK', RtProcessInv(p)', SelectionSound',
         \A q \in RtProcesses \ {p} : RtSame(q) /\ RtSafe(q)
  PROVE  RtInv'
<1>1. ASSUME NEW q \in RtProcesses PROVE RtProcessInv(q)'
  <2>1. CASE q # p
    BY <2>1, RtFrame DEF RtInv
  <2> QED BY <2>1
<1> QED BY <1>1 DEF RtInv

(* Steps that change no file, no selector and no lock: a process looks at  *)
(* something and keeps a handle.                                           *)
LEMMA RtOwnStep ==
  ASSUME RtInv, NEW p \in RtProcesses, RtTypeOK', RtProcessInv(p)',
         UNCHANGED <<rtPackage, rtTrees, rtSelector, rtLock, rtLate>>,
         \A q \in RtProcesses \ {p} : RtSame(q)
  PROVE  RtInv'
<1>1. SelectionSound'
  BY DEF RtInv, SelectionSound
<1>2. \A q \in RtProcesses \ {p} : RtSafe(q)
  BY DEF RtSafe
<1> QED BY <1>1, <1>2, RtStepOf

(* A process that has opened the package is not a runtime, and the reverse. *)
LEMMA RtKnown ==
  ASSUME RtInv, NEW p \in RtProcesses
  PROVE  /\ RtTypeOK /\ RtProcessInv(p) /\ SelectionSound
         /\ rtPc[p] \in RtPoints /\ rtMem[p] \in RtHandles
         /\ rtMem[p].package \subseteq TreeFiles /\ rtMem[p].tree \subseteq TreeFiles
         /\ RtManifest \in TreeFiles
BY DEF RtInv, RtTypeOK, RtHandles, TreeFiles

-----------------------------------------------------------------------------
(* The publisher. *)

LEMMA InventoryStep ==
  ASSUME RtInv, NEW p \in RtProcesses, verify_tree_inventory(p)
  PROVE  RtInv'
<1> USE DEF verify_tree_inventory, package_open
<1>1. rtMem[p] = Nothing
  BY RtKnown DEF RtProcessInv, PackageOpen
<1>2. /\ HandlesOf(p, [rtMem[p] EXCEPT !.package = rtMem[p].package \cup {RtManifest}])
      /\ rtMem'[p].package = {RtManifest} /\ rtMem'[p].tree = {}
  <2>1. rtMem[p].package = {} /\ rtMem[p].tree = {}
    BY <1>1 DEF Nothing
  <2>2. rtMem[p].package \cup {RtManifest} \in SUBSET TreeFiles
    BY RtKnown
  <2> QED BY <2>1, <2>2, HoldPackage, RtKnown
<1>3. rtPc' \in [RtProcesses -> RtPoints] /\ rtPc'[p] = "authenticate"
  BY RtKnown DEF RtTypeOK, RtPoints
<1>4. RtTypeOK'
  BY <1>2, <1>3, OnlyHandles, RtKnown
<1>5. \A q \in RtProcesses \ {p} : RtSame(q)
  BY <1>2, RtKnown DEF RtTypeOK, RtSame, HandlesOf
<1>6. rtPackage[RtManifest] \in Releases
  BY RtKnown DEF RtTypeOK
<1>7. RtProcessInv(p)'
  BY <1>2, <1>3, <1>6
     DEF RtProcessInv, PackageOpen, GenerationBuilt, RuntimeHeld, AuthenticPoints,
         PublishingPoints
<1> QED BY <1>4, <1>5, <1>7, RtOwnStep

LEMMA PayloadStep ==
  ASSUME RtInv, NEW p \in RtProcesses, NEW f \in TreeFiles, verify_payload(p, f)
  PROVE  RtInv'
<1> USE DEF verify_payload, package_open
<1>1. rtMem[p].package \cup {f} \in SUBSET TreeFiles
  BY RtKnown
<1>2. /\ HandlesOf(p, [rtMem[p] EXCEPT !.package = rtMem[p].package \cup {f}])
      /\ rtMem'[p].package = rtMem[p].package \cup {f}
      /\ rtMem'[p].tree = rtMem[p].tree /\ rtPc' = rtPc
  BY <1>1, HoldPackage, RtKnown
<1>3. RtTypeOK'
  BY <1>2, OnlyHandles, RtKnown DEF RtTypeOK
<1>4. \A q \in RtProcesses \ {p} : RtSame(q)
  BY <1>2 DEF RtSame, HandlesOf
<1>5. PackageOpen(p)'
  BY <1>2, RtKnown DEF RtProcessInv, PackageOpen, AuthenticPoints
<1>6. GenerationBuilt(p)' /\ RuntimeHeld(p)'
  BY <1>2 DEF GenerationBuilt, RuntimeHeld, PublishingPoints
<1> QED BY <1>3, <1>4, <1>5, <1>6, RtOwnStep DEF RtProcessInv

LEMMA AuthenticateStep ==
  ASSUME RtInv, NEW p \in RtProcesses, authenticate(p)
  PROVE  RtInv'
<1> USE DEF authenticate, signers_pinned
<1>1. rtPc'[p] = "trusted" /\ rtMem' = rtMem
  BY RtKnown DEF RtTypeOK
<1>2. RtTypeOK'
  BY RtKnown DEF RtTypeOK, RtPoints
<1>3. \A q \in RtProcesses \ {p} : RtSame(q)
  BY RtKnown DEF RtTypeOK, RtSame
<1>4. PackageOpen(p)'
  BY <1>1, RtKnown DEF RtProcessInv, PackageOpen, AuthenticPoints
<1>5. GenerationBuilt(p)' /\ RuntimeHeld(p)'
  BY <1>1 DEF GenerationBuilt, RuntimeHeld, PublishingPoints
<1> QED BY <1>2, <1>3, <1>4, <1>5, RtOwnStep DEF RtProcessInv

LEMMA LockStep ==
  ASSUME RtInv, NEW p \in RtProcesses, PublicationLock_acquire(p)
  PROVE  RtInv'
<1> USE DEF PublicationLock_acquire
<1>1. rtPc'[p] = "locked" /\ rtMem' = rtMem /\ rtLock' = {p}
  BY RtKnown DEF RtTypeOK
<1>2. RtTypeOK'
  BY RtKnown DEF RtTypeOK, RtPoints
<1>3. \A q \in RtProcesses \ {p} : RtSame(q) /\ RtSafe(q)
  BY RtKnown DEF RtTypeOK, RtSame, RtSafe
<1>4. PackageOpen(p)'
  BY <1>1, RtKnown DEF RtProcessInv, PackageOpen, AuthenticPoints
<1>5. GenerationBuilt(p)' /\ RuntimeHeld(p)'
  BY <1>1 DEF GenerationBuilt, RuntimeHeld, PublishingPoints
<1>6. SelectionSound'
  BY RtKnown DEF SelectionSound
<1> QED BY <1>2, <1>3, <1>4, <1>5, <1>6, RtStepOf DEF RtProcessInv

LEMMA GenerationStep ==
  ASSUME RtInv, NEW p \in RtProcesses, NEW g \in Generations, create_generation(p, g)
  PROVE  RtInv'
<1> USE DEF create_generation
<1>1. rtMem[p].tree = {} /\ rtLock = {p}
  BY RtKnown DEF RtProcessInv, PackageOpen, GenerationBuilt
<1>2. /\ HandlesOf(p, [rtMem[p] EXCEPT !.gen = g]) /\ rtMem'[p].gen = g
      /\ rtMem'[p].tree = rtMem[p].tree /\ rtMem'[p].package = rtMem[p].package
  BY HoldGeneration, RtKnown
<1>3. rtPc' \in [RtProcesses -> RtPoints] /\ rtPc'[p] = "publish"
  BY RtKnown DEF RtTypeOK, RtPoints
<1>4. RtTypeOK'
  BY <1>2, <1>3, OnlyHandles, RtKnown
<1>5. \A q \in RtProcesses \ {p} : RtSame(q)
  BY <1>2, RtKnown DEF RtTypeOK, RtSame, HandlesOf
<1>6. PackageOpen(p)'
  BY <1>2, <1>3, RtKnown DEF RtProcessInv, PackageOpen, AuthenticPoints
<1>7. GenerationBuilt(p)' /\ RuntimeHeld(p)'
  BY <1>1, <1>2, <1>3 DEF GenerationBuilt, RuntimeHeld, PublishingPoints
<1> QED BY <1>4, <1>5, <1>6, <1>7, RtOwnStep DEF RtProcessInv

-----------------------------------------------------------------------------
(* Writing into a generation. *)

(* A publisher that changes its own generation only disturbs nobody and    *)
(* not the selection.                                                      *)
LEMMA OwnGeneration ==
  ASSUME RtInv, NEW p \in RtProcesses, rtPc[p] \in PublishingPoints,
         \A g \in Generations \ {rtMem[p].gen} : rtTrees'[g] = rtTrees[g],
         UNCHANGED <<rtPackage, rtSelector, rtLock, rtLate>>
  PROVE  (\A q \in RtProcesses \ {p} : RtSafe(q)) /\ SelectionSound'
<1>1. rtLock = {p} /\ rtMem[p].gen \in Generations /\ rtSelector.gen # rtMem[p].gen
  BY RtKnown DEF RtProcessInv, GenerationBuilt
<1>2. SelectionSound'
  BY <1>1, RtKnown DEF SelectionSound
<1>3. ASSUME NEW q \in RtProcesses \ {p} PROVE RtSafe(q)
  <2>1. rtPc[q] \notin PublishingPoints
    BY <1>1, RtKnown DEF RtProcessInv, GenerationBuilt
  <2>2. rtPc[q] = "retained" => rtMem[q].gen \in Generations \ {rtMem[p].gen}
    BY <1>1, RtKnown DEF RtProcessInv, RuntimeHeld, SelectionSound
  <2> QED BY <2>1, <2>2 DEF RtSafe
<1> QED BY <1>2, <1>3

LEMMA DestinationStep ==
  ASSUME RtInv, NEW p \in RtProcesses, NEW f \in TreeFiles, create_destination_file(p, f)
  PROVE  RtInv'
<1> USE DEF create_destination_file
<1>1. /\ HandlesOf(p, [rtMem[p] EXCEPT !.file = f]) /\ rtMem'[p].file = f
      /\ rtMem'[p].gen = rtMem[p].gen /\ rtMem'[p].tree = rtMem[p].tree
      /\ rtMem'[p].package = rtMem[p].package
  BY HoldFile, RtKnown
<1>2. rtPc' \in [RtProcesses -> RtPoints] /\ rtPc'[p] = "copy"
  BY RtKnown DEF RtTypeOK, RtPoints
<1>3. rtPc[p] \in PublishingPoints
  BY DEF PublishingPoints
<1>4. /\ \A g \in Generations \ {rtMem[p].gen} : rtTrees'[g] = rtTrees[g]
      /\ \A h \in TreeFiles \ {f} : rtTrees'[rtMem[p].gen][h] = rtTrees[rtMem[p].gen][h]
  <2>1. rtMem[p].gen \in Generations
    BY <1>3, RtKnown DEF RtProcessInv, GenerationBuilt
  <2> QED BY <2>1, RtKnown DEF RtTypeOK
<1>5. (\A q \in RtProcesses \ {p} : RtSafe(q)) /\ SelectionSound'
  BY <1>3, <1>4, OwnGeneration
<1>6. \A q \in RtProcesses \ {p} : RtSame(q)
  BY <1>1, RtKnown DEF RtTypeOK, RtSame, HandlesOf
<1>7. RtTypeOK'
  <2>1. rtTrees' \in [Generations -> [TreeFiles -> Releases \cup {NoContent, Partial}]]
    BY RtKnown DEF RtTypeOK
  <2> QED BY <1>1, <1>2, <2>1, RtKnown DEF RtTypeOK, HandlesOf
<1>8. f \notin rtMem[p].tree
  BY RuntimeAssumption DEF manifest_for
<1>9. PackageOpen(p)'
  BY <1>1, <1>2, RtKnown DEF RtProcessInv, PackageOpen, AuthenticPoints
<1>10. GenerationBuilt(p)' /\ RuntimeHeld(p)'
  BY <1>1, <1>2, <1>4, <1>8, RtKnown
     DEF RtProcessInv, GenerationBuilt, RuntimeHeld, PublishingPoints
<1> QED BY <1>5, <1>6, <1>7, <1>9, <1>10, RtStepOf DEF RtProcessInv

LEMMA CopyStep ==
  ASSUME RtInv, NEW p \in RtProcesses, copy_bounded(p)
  PROVE  RtInv'
<1> USE DEF copy_bounded
<1>1. rtPc' \in [RtProcesses -> RtPoints] /\ rtPc'[p] = "reopen" /\ rtMem' = rtMem
  BY RtKnown DEF RtTypeOK, RtPoints
<1>2. /\ rtPc[p] \in PublishingPoints /\ rtMem[p].file \in TreeFiles
      /\ rtMem[p].package = TreeFiles
  BY RtKnown DEF RtProcessInv, PackageOpen, GenerationBuilt, PublishingPoints, AuthenticPoints
<1>3. /\ \A g \in Generations \ {rtMem[p].gen} : rtTrees'[g] = rtTrees[g]
      /\ \A h \in TreeFiles \ {rtMem[p].file} :
           rtTrees'[rtMem[p].gen][h] = rtTrees[rtMem[p].gen][h]
      /\ rtTrees'[rtMem[p].gen][rtMem[p].file] = rtPackage[rtMem[p].file]
  <2>1. rtMem[p].gen \in Generations
    BY <1>2, RtKnown DEF RtProcessInv, GenerationBuilt
  <2> QED BY <1>2, <2>1, RtKnown DEF RtTypeOK
<1>4. (\A q \in RtProcesses \ {p} : RtSafe(q)) /\ SelectionSound'
  BY <1>2, <1>3, OwnGeneration
<1>5. \A q \in RtProcesses \ {p} : RtSame(q)
  BY RtKnown DEF RtTypeOK, RtSame
<1>6. RtTypeOK'
  <2>1. rtPackage[rtMem[p].file] \in Releases \cup {NoContent, Partial}
    BY <1>2, RtKnown DEF RtTypeOK
  <2>2. rtTrees' \in [Generations -> [TreeFiles -> Releases \cup {NoContent, Partial}]]
    BY <2>1, RtKnown DEF RtTypeOK
  <2> QED BY <1>1, <2>2, RtKnown DEF RtTypeOK
<1>7. PackageOpen(p)'
  BY <1>1, RtKnown DEF RtProcessInv, PackageOpen, AuthenticPoints
<1>8. GenerationBuilt(p)' /\ RuntimeHeld(p)'
  <2>1. GenerationBuilt(p)'
    <3>1. /\ rtLock = {p} /\ rtMem[p].gen \in Generations /\ rtSelector.gen # rtMem[p].gen
          /\ rtMem[p].tree \subseteq TreeFiles
          /\ \A f \in rtMem[p].tree : rtTrees[rtMem[p].gen][f] = rtPackage[f]
      BY <1>2, RtKnown DEF RtProcessInv, GenerationBuilt
    <3>2. \A f \in rtMem[p].tree : rtTrees'[rtMem[p].gen][f] = rtPackage[f]
      BY <1>3, <3>1
    <3>3. UNCHANGED <<rtLock, rtSelector, rtPackage>>
      OBVIOUS
    <3> QED BY <1>1, <1>2, <3>1, <3>2, <3>3 DEF GenerationBuilt
  <2>2. RuntimeHeld(p)'
    BY <1>1, <1>2, <1>3, RtKnown DEF RtProcessInv, RuntimeHeld
  <2> QED BY <2>1, <2>2
<1> QED BY <1>4, <1>5, <1>6, <1>7, <1>8, RtStepOf DEF RtProcessInv

LEMMA ReopenStep ==
  ASSUME RtInv, NEW p \in RtProcesses, reopen_destination(p)
  PROVE  RtInv'
<1> USE DEF reopen_destination
<1>1. rtPc' \in [RtProcesses -> RtPoints] /\ rtPc'[p] = "publish"
  BY RtKnown DEF RtTypeOK, RtPoints
<1>2. rtMem[p].file \in TreeFiles
  BY RtKnown DEF RtProcessInv, GenerationBuilt
<1> DEFINE m == [rtMem[p] EXCEPT !.tree = @ \cup {rtMem[p].file}, !.file = NoContent]
<1>3. m \in RtHandles
  <2>1. rtMem[p] \in RtHandles
    BY RtKnown DEF RtTypeOK
  <2> QED BY <1>2, <2>1 DEF RtHandles
<1>4. HandlesOf(p, m)
  BY <1>3, RtKnown DEF RtTypeOK, HandlesOf
<1>5. /\ rtMem'[p].tree = rtMem[p].tree \cup {rtMem[p].file} /\ rtMem'[p].gen = rtMem[p].gen
      /\ rtMem'[p].package = rtMem[p].package
  BY <1>4, RtKnown DEF HandlesOf, RtHandles
<1>6. RtTypeOK'
  BY <1>1, <1>4, OnlyHandles, RtKnown
<1>7. \A q \in RtProcesses \ {p} : RtSame(q)
  BY <1>4, RtKnown DEF RtTypeOK, RtSame, HandlesOf
<1>8. PackageOpen(p)'
  BY <1>1, <1>5, RtKnown DEF RtProcessInv, PackageOpen, AuthenticPoints
<1> HIDE DEF m
<1>9. GenerationBuilt(p)'
  <2>1. /\ rtLock = {p} /\ rtMem[p].gen \in Generations /\ rtSelector.gen # rtMem[p].gen
        /\ \A f \in rtMem[p].tree : rtTrees[rtMem[p].gen][f] = rtPackage[f]
    BY RtKnown DEF RtProcessInv, GenerationBuilt, PublishingPoints
  <2>2. \A f \in rtMem[p].tree \cup {rtMem[p].file} : rtTrees[rtMem[p].gen][f] = rtPackage[f]
    BY <2>1
  <2> QED BY <1>1, <1>5, <2>1, <2>2 DEF GenerationBuilt, PublishingPoints
<1>10. RuntimeHeld(p)'
  BY <1>1 DEF RuntimeHeld
<1> QED BY <1>10, <1>6, <1>7, <1>8, <1>9, RtOwnStep DEF RtProcessInv

(* The selection: what the publisher holds is a whole copy of a pinned     *)
(* release, whoever changed what before.                                   *)
LEMMA SelectStep ==
  ASSUME RtInv, NEW p \in RtProcesses, write_json_atomic(p)
  PROVE  RtInv'
<1> USE DEF write_json_atomic
<1>1. rtPc' \in [RtProcesses -> RtPoints] /\ rtPc'[p] = "published" /\ rtMem' = rtMem
  BY RtKnown DEF RtTypeOK, RtPoints
<1>2. /\ rtMem[p].package = TreeFiles /\ rtPackage[RtManifest] \in PinnedReleases
      /\ \A f \in TreeFiles : rtPackage[f] = rtPackage[RtManifest]
  BY RtKnown DEF RtProcessInv, PackageOpen, AuthenticPoints
<1>3. /\ rtLock = {p} /\ rtMem[p].gen \in Generations
      /\ \A f \in TreeFiles : rtTrees[rtMem[p].gen][f] = rtPackage[f]
  BY RtKnown DEF RtProcessInv, GenerationBuilt, PublishingPoints
<1>4. rtSelector'.gen = rtMem[p].gen /\ rtSelector'.manifest = rtPackage[RtManifest]
  OBVIOUS
<1>5. SelectionSound'
  BY <1>2, <1>3, <1>4 DEF SelectionSound
<1>6. RtTypeOK'
  <2>1. rtSelector' \in [gen : Generations \cup {NoGeneration},
                         manifest : Releases \cup {NoContent}]
    BY <1>2, <1>3, RuntimeAssumption
  <2> QED BY <1>1, <2>1, RtKnown DEF RtTypeOK
<1>7. ASSUME NEW q \in RtProcesses \ {p} PROVE RtSame(q) /\ RtSafe(q)
  <2>1. rtPc[q] \notin {"walk", "retained"} /\ rtLock # {q}
    BY <1>3 DEF SelectorHeld
  <2>2. RtSame(q)
    BY RtKnown DEF RtTypeOK, RtSame
  <2> QED BY <2>1, <2>2 DEF RtSafe
<1>8. PackageOpen(p)'
  BY <1>1, RtKnown DEF RtProcessInv, PackageOpen, AuthenticPoints
<1>9. GenerationBuilt(p)' /\ RuntimeHeld(p)'
  BY <1>1 DEF GenerationBuilt, RuntimeHeld, PublishingPoints
<1> QED BY <1>5, <1>6, <1>7, <1>8, <1>9, RtStepOf DEF RtProcessInv

-----------------------------------------------------------------------------
(* The runtime. *)

(* A process that starts from a generation holds nothing yet. *)
LEMMA StartedProcess ==
  ASSUME RtInv, NEW q \in RtProcesses, NEW g \in Generations \cup {NoGeneration},
         RuntimeStarts(q, g), rtPc'[q] = "inspect"
  PROVE  HandlesOf(q, [rtMem[q] EXCEPT !.image = g]) /\ RtProcessInv(q)'
<1>1. HandlesOf(q, [rtMem[q] EXCEPT !.image = g])
  BY HoldImage, RtKnown DEF RuntimeStarts
<1>2. RtProcessInv(q)'
  BY DEF RtProcessInv, PackageOpen, GenerationBuilt, RuntimeHeld, AuthenticPoints,
         PublishingPoints
<1> QED BY <1>1, <1>2

LEMMA StartStep ==
  ASSUME RtInv, NEW q \in RtProcesses, NEW g \in Generations, StartRuntime(q, g)
  PROVE  RtInv'
<1> USE DEF StartRuntime
<1>1. rtPc' \in [RtProcesses -> RtPoints] /\ rtPc'[q] = "inspect"
  BY RtKnown DEF RtTypeOK, RtPoints
<1>2. HandlesOf(q, [rtMem[q] EXCEPT !.image = g]) /\ RtProcessInv(q)'
  BY <1>1, StartedProcess
<1>3. UNCHANGED <<rtPackage, rtTrees, rtSelector, rtRoot, rtLock, rtLate, rtTampered>>
  BY DEF RuntimeStarts
<1>4. RtTypeOK'
  BY <1>1, <1>2, <1>3, OnlyHandles, RtKnown
<1>5. \A r \in RtProcesses \ {q} : RtSame(r)
  BY <1>2, RtKnown DEF RtTypeOK, RtSame, HandlesOf
<1> QED BY <1>2, <1>3, <1>4, <1>5, RtOwnStep

(* Two processes move: the publisher waits, its child begins. *)
LEMMA LaunchStep ==
  ASSUME RtInv, NEW p \in RtProcesses, NEW q \in RtProcesses, launch(p, q)
  PROVE  RtInv'
<1> USE DEF launch
<1>1. /\ rtPc' \in [RtProcesses -> RtPoints] /\ rtPc'[q] = "inspect" /\ rtPc'[p] = "waiting"
      /\ \A r \in RtProcesses \ {p, q} : rtPc'[r] = rtPc[r]
  BY RtKnown DEF RtTypeOK, RtPoints
<1>2. rtMem[p].gen \in Generations \cup {NoGeneration}
  BY RtKnown DEF RtHandles
<1>3. HandlesOf(q, [rtMem[q] EXCEPT !.image = rtMem[p].gen]) /\ RtProcessInv(q)'
  BY <1>1, <1>2, StartedProcess
<1>4. UNCHANGED <<rtPackage, rtTrees, rtSelector, rtRoot, rtLock, rtLate, rtTampered>>
  BY DEF RuntimeStarts
<1>5. RtTypeOK'
  BY <1>1, <1>3, <1>4, OnlyHandles, RtKnown
<1>6. SelectionSound'
  BY <1>4, RtKnown DEF SelectionSound
<1>7. rtMem'[p] = rtMem[p]
  BY <1>3 DEF HandlesOf
<1>8. PackageOpen(p)'
  BY <1>1, <1>4, <1>7, RtKnown DEF RtProcessInv, PackageOpen, AuthenticPoints
<1>9. GenerationBuilt(p)' /\ RuntimeHeld(p)'
  BY <1>1 DEF GenerationBuilt, RuntimeHeld, PublishingPoints
<1>10. ASSUME NEW r \in RtProcesses \ {p, q} PROVE RtProcessInv(r)'
  <2>1. RtSame(r)
    BY <1>1, <1>3 DEF RtSame, HandlesOf
  <2>2. RtSafe(r)
    BY <1>4 DEF RtSafe
  <2> QED BY <2>1, <2>2, RtFrame, RtKnown
<1> QED BY <1>3, <1>5, <1>6, <1>8, <1>9, <1>10 DEF RtInv, RtProcessInv

LEMMA OpenSelectorStep ==
  ASSUME RtInv, NEW q \in RtProcesses, open_selector(q)
  PROVE  RtInv'
<1> USE DEF open_selector
<1>1. rtPc' \in [RtProcesses -> RtPoints] /\ rtPc'[q] = "walk"
  BY RtKnown DEF RtTypeOK, RtPoints
<1>2. rtSelector.gen \in Generations \cup {NoGeneration}
  BY RtKnown DEF RtTypeOK
<1>3. HandlesOf(q, [rtMem[q] EXCEPT !.gen = rtSelector.gen]) /\ rtMem'[q].gen = rtSelector.gen
  BY <1>2, HoldGeneration, RtKnown
<1>4. RtTypeOK'
  BY <1>1, <1>3, OnlyHandles, RtKnown
<1>5. \A r \in RtProcesses \ {q} : RtSame(r)
  BY <1>3, RtKnown DEF RtTypeOK, RtSame, HandlesOf
<1>6. PackageOpen(q)' /\ GenerationBuilt(q)'
  BY <1>1 DEF PackageOpen, GenerationBuilt, AuthenticPoints, PublishingPoints
<1>7. RuntimeHeld(q)'
  BY <1>1, <1>3 DEF RuntimeHeld, NoSelector
<1> QED BY <1>4, <1>5, <1>6, <1>7, RtOwnStep DEF RtProcessInv

LEMMA WalkStep ==
  ASSUME RtInv, NEW q \in RtProcesses, NEW f \in TreeFiles, open_walked_node(q, f)
  PROVE  RtInv'
<1> USE DEF open_walked_node
<1>1. rtMem[q].tree \cup {f} \in SUBSET TreeFiles
  BY RtKnown
<1>2. /\ HandlesOf(q, [rtMem[q] EXCEPT !.tree = rtMem[q].tree \cup {f}])
      /\ rtMem'[q].gen = rtMem[q].gen /\ rtPc' = rtPc
  BY <1>1, HoldTree, RtKnown
<1>3. RtTypeOK'
  BY <1>2, OnlyHandles, RtKnown DEF RtTypeOK
<1>4. \A r \in RtProcesses \ {q} : RtSame(r)
  BY <1>2 DEF RtSame, HandlesOf
<1>5. PackageOpen(q)' /\ GenerationBuilt(q)'
  BY <1>2 DEF PackageOpen, GenerationBuilt, AuthenticPoints, PublishingPoints
<1>6. RuntimeHeld(q)'
  BY <1>2, RtKnown DEF RtProcessInv, RuntimeHeld
<1> QED BY <1>3, <1>4, <1>5, <1>6, RtOwnStep DEF RtProcessInv

LEMMA InspectStep ==
  ASSUME RtInv, NEW q \in RtProcesses, inspect(q)
  PROVE  RtInv'
<1> USE DEF inspect, validate_runtime_contract
<1>1. rtPc' \in [RtProcesses -> RtPoints] /\ rtPc'[q] = "retained" /\ rtMem' = rtMem
  BY RtKnown DEF RtTypeOK, RtPoints
<1>2. RtTypeOK'
  BY <1>1, RtKnown DEF RtTypeOK
<1>3. \A r \in RtProcesses \ {q} : RtSame(r)
  BY RtKnown DEF RtTypeOK, RtSame
<1>4. PackageOpen(q)' /\ GenerationBuilt(q)'
  BY <1>1 DEF PackageOpen, GenerationBuilt, AuthenticPoints, PublishingPoints
<1>5. RuntimeHeld(q)'
  BY <1>1, RtKnown DEF RtProcessInv, RuntimeHeld
<1> QED BY <1>2, <1>3, <1>4, <1>5, RtOwnStep DEF RtProcessInv

(* An error, an exit or a power loss gives up handles and the lock, and    *)
(* leaves what was written.                                                *)
LEMMA EndsStep ==
  ASSUME RtInv, NEW p \in RtProcesses, RtEnds(p)
  PROVE  RtInv'
<1> USE DEF RtEnds
<1>1. /\ rtPc' \in [RtProcesses -> RtPoints] /\ rtPc'[p] = "idle"
      /\ rtMem' = [rtMem EXCEPT ![p] = Nothing]
  BY RtKnown DEF RtTypeOK, RtPoints
<1>2. Nothing \in RtHandles
  BY DEF Nothing, RtHandles
<1>3. rtMem' \in [RtProcesses -> RtHandles] /\ rtMem'[p] = Nothing
  BY <1>1, <1>2, RtKnown DEF RtTypeOK
<1>4. RtTypeOK'
  BY <1>1, <1>3, RtKnown DEF RtTypeOK
<1>5. \A q \in RtProcesses \ {p} : RtSame(q) /\ RtSafe(q)
  BY RtKnown DEF RtTypeOK, RtSame, RtSafe
<1>6. SelectionSound'
  BY RtKnown DEF SelectionSound
<1>7. RtProcessInv(p)'
  BY <1>1, <1>3
     DEF RtProcessInv, PackageOpen, GenerationBuilt, RuntimeHeld, AuthenticPoints,
         PublishingPoints
<1> QED BY <1>4, <1>5, <1>6, <1>7, RtStepOf

-----------------------------------------------------------------------------
(* The others: programs of the administrator between two handles. *)

LEMMA RtStill ==
  ASSUME RtInv, RtTypeOK', SelectionSound',
         \A q \in RtProcesses : RtSame(q) /\ RtSafe(q)
  PROVE  RtInv'
BY RtFrame DEF RtInv

LEMMA TamperTreeStep ==
  ASSUME RtInv, NEW g \in Generations, NEW f \in TreeFiles, TamperTree(g, f)
  PROVE  RtInv'
<1> USE DEF TamperTree
<1>1. PICK c \in Releases \cup {NoContent} : rtTrees' = [rtTrees EXCEPT ![g][f] = c]
  OBVIOUS
<1>2. /\ \A h \in Generations \ {g} : rtTrees'[h] = rtTrees[h]
      /\ \A e \in TreeFiles \ {f} : rtTrees'[g][e] = rtTrees[g][e]
  BY <1>1 DEF RtInv, RtTypeOK
<1>3. RtTypeOK'
  <2>1. rtTrees' \in [Generations -> [TreeFiles -> Releases \cup {NoContent, Partial}]]
    BY <1>1 DEF RtInv, RtTypeOK
  <2>2. rtTampered' \in 0 .. MaxTampering
    BY RuntimeAssumption DEF RtInv, RtTypeOK
  <2>3. rtLate' \in SUBSET Generations
    BY DEF RtInv, RtTypeOK
  <2> QED BY <2>1, <2>2, <2>3 DEF RtInv, RtTypeOK
<1>4. SelectionSound'
  BY <1>2 DEF RtInv, SelectionSound
<1>5. ASSUME NEW q \in RtProcesses PROVE RtSame(q) /\ RtSafe(q)
  <2>1. ASSUME rtPc[q] \in PublishingPoints \cup {"retained"}, NEW e \in rtMem[q].tree
        PROVE  rtTrees'[rtMem[q].gen][e] = rtTrees[rtMem[q].gen][e]
    <3>1. rtMem[q].gen \in Generations /\ e \in TreeFiles
      BY <2>1, RtKnown DEF RtProcessInv, GenerationBuilt, RuntimeHeld, SelectionSound
    <3>2. rtMem[q].gen # g \/ e # f
      BY <2>1 DEF Held
    <3> QED BY <1>2, <3>1, <3>2
  <2> QED BY <2>1 DEF RtSame, RtSafe
<1> QED BY <1>3, <1>4, <1>5, RtStill

LEMMA TamperPackageStep ==
  ASSUME RtInv, NEW f \in TreeFiles, TamperPackage(f)
  PROVE  RtInv'
<1> USE DEF TamperPackage
<1>1. PICK c \in Releases \cup {NoContent} : rtPackage' = [rtPackage EXCEPT ![f] = c]
  OBVIOUS
<1>2. \A h \in TreeFiles \ {f} : rtPackage'[h] = rtPackage[h]
  BY <1>1 DEF RtInv, RtTypeOK
<1>3. RtTypeOK'
  <2>1. rtPackage' \in [TreeFiles -> Releases \cup {NoContent}]
    BY <1>1 DEF RtInv, RtTypeOK
  <2>2. rtTampered' \in 0 .. MaxTampering
    BY RuntimeAssumption DEF RtInv, RtTypeOK
  <2> QED BY <2>1, <2>2 DEF RtInv, RtTypeOK
<1>4. SelectionSound'
  BY DEF RtInv, SelectionSound
<1>5. ASSUME NEW q \in RtProcesses PROVE RtSame(q) /\ RtSafe(q)
  BY <1>2, RtKnown DEF RtSame, RtSafe
<1> QED BY <1>3, <1>4, <1>5, RtStill

LEMMA RootStep ==
  ASSUME RtInv, RootChanges
  PROVE  RtInv'
<1> USE DEF RootChanges
<1>1. RtTypeOK'
  <2>1. rtTampered' \in 0 .. MaxTampering
    BY RuntimeAssumption DEF RtInv, RtTypeOK
  <2>2. rtRoot' \in BOOLEAN
    OBVIOUS
  <2> QED BY <2>1, <2>2 DEF RtInv, RtTypeOK
<1>2. SelectionSound'
  BY DEF RtInv, SelectionSound
<1>3. \A q \in RtProcesses : RtSame(q) /\ RtSafe(q)
  BY DEF RtSame, RtSafe
<1> QED BY <1>1, <1>2, <1>3, RtStill

-----------------------------------------------------------------------------
(* The invariant. *)

LEMMA RtInitially == RtInit => RtInv
<1> SUFFICES ASSUME RtInit PROVE RtInv
  OBVIOUS
<1>1. PICK package \in [TreeFiles -> Releases] : RtStart(package)
  BY DEF RtInit
<1> USE DEF RtStart
<1>2. Nothing \in RtHandles
  BY DEF Nothing, RtHandles
<1>3. RtTypeOK
  <2>1. rtTrees \in [Generations -> [TreeFiles -> Releases \cup {NoContent, Partial}]]
    BY <1>1 DEF EmptyTree
  <2>2. /\ rtPc \in [RtProcesses -> RtPoints] /\ rtMem \in [RtProcesses -> RtHandles]
    BY <1>1, <1>2 DEF RtPoints
  <2>3. 0 \in 0 .. MaxTampering
    BY RuntimeAssumption
  <2>4. rtPackage \in [TreeFiles -> Releases \cup {NoContent}]
    BY <1>1
  <2> QED BY <1>1, <2>1, <2>2, <2>3, <2>4 DEF RtTypeOK, NoSelector
<1>4. \A p \in RtProcesses : RtProcessInv(p)
  BY <1>1
     DEF RtProcessInv, PackageOpen, GenerationBuilt, RuntimeHeld, AuthenticPoints,
         PublishingPoints
<1>5. SelectionSound
  BY <1>1 DEF SelectionSound
<1> QED BY <1>3, <1>4, <1>5 DEF RtInv

LEMMA RtInductive == RtInv /\ [RtNext]_rtVars => RtInv'
<1> SUFFICES ASSUME RtInv, [RtNext]_rtVars PROVE RtInv'
  OBVIOUS
<1>1. CASE RootChanges
  BY <1>1, RootStep
<1>2. ASSUME NEW f \in TreeFiles, TamperPackage(f) PROVE RtInv'
  BY <1>2, TamperPackageStep
<1>3. ASSUME NEW f \in TreeFiles, NEW g \in Generations, TamperTree(g, f) PROVE RtInv'
  BY <1>3, TamperTreeStep
<1>4. ASSUME NEW p \in RtProcesses,
             \/ verify_tree_inventory(p) \/ authenticate(p) \/ PublicationLock_acquire(p)
             \/ copy_bounded(p) \/ reopen_destination(p) \/ write_json_atomic(p)
             \/ open_selector(p) \/ inspect(p) \/ RtEnds(p)
      PROVE  RtInv'
  BY <1>4, InventoryStep, AuthenticateStep, LockStep, CopyStep, ReopenStep, SelectStep,
     OpenSelectorStep, InspectStep, EndsStep
<1>5. ASSUME NEW p \in RtProcesses, NEW f \in TreeFiles,
             verify_payload(p, f) \/ create_destination_file(p, f) \/ open_walked_node(p, f)
      PROVE  RtInv'
  BY <1>5, PayloadStep, DestinationStep, WalkStep
<1>6. ASSUME NEW p \in RtProcesses, NEW g \in Generations,
             create_generation(p, g) \/ StartRuntime(p, g)
      PROVE  RtInv'
  BY <1>6, GenerationStep, StartStep
<1>7. ASSUME NEW p \in RtProcesses, NEW q \in RtProcesses, launch(p, q) PROVE RtInv'
  BY <1>7, LaunchStep
<1>8. CASE UNCHANGED rtVars
  BY <1>8
     DEF rtVars, RtInv, RtTypeOK, RtProcessInv, PackageOpen, GenerationBuilt, RuntimeHeld,
         SelectionSound
<1> QED BY <1>1, <1>2, <1>3, <1>4, <1>5, <1>6, <1>7, <1>8 DEF RtNext

(* Every handle keeps what it was opened for: RtInv holds of every         *)
(* publisher, runtime and selection (publisher.rs, runtime_trust.rs).      *)
THEOREM RuntimeInvariant == RtSpec => []RtInv
BY RtInitially, RtInductive, PTL DEF RtSpec

(* runtime-current.json only ever names a complete generation of the       *)
(* pinned publisher's files, unless that generation is changed afterwards  *)
(* (publisher.rs, publish).                                                *)
THEOREM SelectionAuthentic == RtSpec => []SelectedRuntimeAuthentic
<1>1. RtInv => SelectedRuntimeAuthentic
  BY DEF RtInv, SelectionSound, SelectedRuntimeAuthentic
<1> QED BY <1>1, RuntimeInvariant, PTL

(* A runtime that passed inspect keeps running from the selected           *)
(* generation, whose files stay a pinned release (runtime_trust.rs,        *)
(* inspect).                                                               *)
THEOREM RetainedStays == RtSpec => []RetainedRuntimeStays
<1>1. RtInv => RetainedRuntimeStays
  <2> SUFFICES ASSUME RtInv, NEW p \in RtProcesses, rtPc[p] = "retained"
               PROVE  /\ rtSelector.gen = rtMem[p].gen
                      /\ \E r \in PinnedReleases :
                           \A f \in TreeFiles : rtTrees[rtMem[p].gen][f] = r
    BY DEF RetainedRuntimeStays
  <2>1. RuntimeHeld(p) /\ SelectionSound
    BY RtKnown DEF RtProcessInv
  <2> QED BY <2>1 DEF RuntimeHeld, SelectionSound
<1> QED BY <1>1, RuntimeInvariant, PTL

-----------------------------------------------------------------------------
(* The two halves of DownloadOwned. *)
OpenIsOwn == \A p \in Preparers : HandleOpen(p) => dtTemp # NoFile /\ dtTemp.by = p

LeftIsKilled ==
  dtTemp # NoFile /\ dtTemp.by # Killed => HandleOpen(dtTemp.by) \/ dtPc[dtTemp.by] = "cleanup"

LEMMA DtKnown ==
  ASSUME DtInv
  PROVE  /\ DtTypeOK /\ OpenIsOwn /\ LeftIsKilled /\ dtArtifact = NoPayload
         /\ dtPc \in [Preparers -> {"idle", "delete", "create", "write", "publish", "close",
                                    "cleanup"}]
         /\ dtTemp # NoFile => /\ dtTemp \in Downloads
                               /\ dtTemp.by \in Preparers \cup {Killed}
BY DEF DtInv, DownloadOwned, OpenIsOwn, LeftIsKilled, DtTypeOK, Downloads

LEMMA DtParts ==
  DtTypeOK /\ OpenIsOwn /\ LeftIsKilled /\ dtArtifact = NoPayload => DtInv
BY DEF DtInv, DownloadOwned, OpenIsOwn, LeftIsKilled

LEMMA DtPartsNext ==
  (DtTypeOK /\ OpenIsOwn /\ LeftIsKilled /\ dtArtifact = NoPayload)' => DtInv'
BY DtParts, PTL

(* A step of p that leaves the artifact and the host alone. *)
LEMMA DtStepOf ==
  ASSUME DtInv, NEW p \in Preparers,
         NEW to \in {"idle", "delete", "create", "write", "publish", "close", "cleanup"},
         dtPc' = [dtPc EXCEPT ![p] = to], dtTemp' = NoFile \/ dtTemp' \in Downloads,
         UNCHANGED <<dtHost, dtArtifact, dtChanges>>, OpenIsOwn', LeftIsKilled'
  PROVE  DtInv'
<1>1. dtPc' \in [Preparers -> {"idle", "delete", "create", "write", "publish", "close", "cleanup"}]
  BY DtKnown
<1>2. DtTypeOK'
  BY <1>1, DtKnown DEF DtTypeOK
<1> QED BY <1>2, DtKnown, DtPartsNext

-----------------------------------------------------------------------------
(* The steps of a preparation. *)

(* A step of p between two points of the same kind: its handle and its     *)
(* duty to delete the file stay what they are.                             *)
LEMMA DtMoveStep ==
  ASSUME DtInv, NEW p \in Preparers,
         NEW to \in {"idle", "delete", "create", "write", "publish", "close", "cleanup"},
         dtPc' = [dtPc EXCEPT ![p] = to],
         \/ HandleOpen(p) /\ to \in {"publish", "close", "cleanup"}
         \/ dtPc[p] \notin {"write", "publish", "close", "cleanup"} /\ to \in {"idle", "delete", "create"},
         \/ dtTemp' = dtTemp
         \/ HandleOpen(p) /\ dtTemp' \in Downloads /\ dtTemp'.by = dtTemp.by,
         UNCHANGED <<dtHost, dtArtifact, dtChanges>>
  PROVE  DtInv'
<1>1. /\ dtPc'[p] = to /\ \A q \in Preparers \ {p} : dtPc'[q] = dtPc[q]
      /\ dtTemp' = NoFile \/ dtTemp' \in Downloads
  BY DtKnown
<1>2. /\ dtTemp' # NoFile <=> dtTemp # NoFile
      /\ dtTemp' # NoFile => dtTemp'.by = dtTemp.by
  BY DtKnown, DriverAssumption DEF OpenIsOwn
<1>3. OpenIsOwn'
  BY <1>1, <1>2, DtKnown DEF OpenIsOwn, HandleOpen
<1>4. LeftIsKilled'
  <2>1. CASE dtTemp' = NoFile \/ dtTemp'.by = Killed
    BY <2>1 DEF LeftIsKilled
  <2>2. CASE dtTemp' # NoFile /\ dtTemp'.by # Killed
    <3> DEFINE owner == dtTemp.by
    <3>1. dtTemp # NoFile /\ owner # Killed /\ owner \in Preparers
      BY <1>2, <2>2, DtKnown
    <3>2. dtPc[owner] \in {"write", "publish", "close", "cleanup"}
      BY <3>1, DtKnown DEF LeftIsKilled, HandleOpen
    <3>3. dtPc'[owner] \in {"write", "publish", "close", "cleanup"}
      BY <1>1, <3>1, <3>2 DEF HandleOpen
    <3> QED BY <1>2, <2>2, <3>3 DEF LeftIsKilled, HandleOpen
  <2> QED BY <2>1, <2>2
<1> QED BY <1>1, <1>3, <1>4, DtStepOf

(* The file is deleted only while no handle is open. *)
LEMMA DeleteStep ==
  ASSUME DtInv, NEW p \in Preparers, delete_if_present(p)
  PROVE  DtInv'
<1>1. PICK to \in {"create", "idle"} :
        /\ dtPc' = [dtPc EXCEPT ![p] = to] /\ dtPc[p] \in {"delete", "cleanup"}
        /\ UNCHANGED <<dtHost, dtArtifact, dtChanges>> /\ DeleteTemp
  BY DEF delete_if_present
<1>2. dtPc'[p] = to /\ \A q \in Preparers \ {p} : dtPc'[q] = dtPc[q]
  BY <1>1, DtKnown
<1>3. CASE TempOpen
  <2>1. PICK q \in Preparers : HandleOpen(q)
    BY <1>3 DEF TempOpen
  <2>2. dtTemp' = dtTemp /\ dtTemp.by = q /\ q # p
    BY <1>1, <1>3, <2>1, DtKnown DEF DeleteTemp, OpenIsOwn, HandleOpen
  <2>3. OpenIsOwn'
    BY <1>2, <2>2, DtKnown DEF OpenIsOwn, HandleOpen
  <2>4. LeftIsKilled'
    BY <1>2, <2>1, <2>2 DEF LeftIsKilled, HandleOpen
  <2> QED BY <1>1, <2>2, <2>3, <2>4, DtKnown, DtStepOf
<1>4. CASE ~TempOpen
  <2>1. dtTemp' = NoFile
    BY <1>1, <1>4 DEF DeleteTemp
  <2>2. OpenIsOwn' /\ LeftIsKilled'
    BY <1>2, <1>4, <2>1 DEF OpenIsOwn, LeftIsKilled, HandleOpen, TempOpen
  <2> QED BY <1>1, <2>1, <2>2, DtStepOf
<1> QED BY <1>3, <1>4

LEMMA CreateStep ==
  ASSUME DtInv, NEW p \in Preparers, create_new(p)
  PROVE  DtInv'
<1> USE DEF create_new
<1>1. CASE dtTemp # NoFile
  BY <1>1, DtMoveStep
<1>2. CASE dtTemp = NoFile
  <2>1. /\ dtPc' = [dtPc EXCEPT ![p] = "write"] /\ dtPc'[p] = "write"
        /\ \A q \in Preparers \ {p} : dtPc'[q] = dtPc[q]
        /\ dtTemp' = [by |-> p, bytes |-> NoPayload]
    BY <1>2, DtKnown
  <2>2. dtTemp' \in Downloads /\ dtTemp'.by = p /\ dtTemp' # NoFile
    BY <2>1, DriverAssumption DEF Downloads
  <2>3. OpenIsOwn'
    BY <1>2, <2>1, <2>2, DtKnown DEF OpenIsOwn, HandleOpen
  <2>4. LeftIsKilled'
    BY <2>1, <2>2 DEF LeftIsKilled, HandleOpen
  <2> QED BY <2>1, <2>2, <2>3, <2>4, DtStepOf
<1> QED BY <1>1, <1>2

LEMMA DownloadStep ==
  ASSUME DtInv, NEW p \in Preparers, download_to_handle(p)
  PROVE  DtInv'
<1> USE DEF download_to_handle
<1>1. HandleOpen(p) /\ dtTemp # NoFile /\ dtTemp \in Downloads
  BY DtKnown DEF HandleOpen, OpenIsOwn
<1>2. CASE UNCHANGED dtTemp /\ DtGo(p, "write", "close")
  BY <1>1, <1>2, DtMoveStep
<1>3. ASSUME NEW bytes \in Payloads, dtTemp' = [dtTemp EXCEPT !.bytes = bytes],
             DtGo(p, "write", "publish")
      PROVE  DtInv'
  <2>1. dtTemp' \in Downloads /\ dtTemp'.by = dtTemp.by
    BY <1>1, <1>3 DEF Downloads
  <2> QED BY <1>1, <1>3, <2>1, DtMoveStep
<1> QED BY <1>2, <1>3

(* Whoever renames has the file open itself. *)
LEMMA RenameStep ==
  ASSUME DtInv, NEW p \in Preparers, rename_atomically(p)
  PROVE  DtInv'
<1> USE DEF rename_atomically
<1>1. HandleOpen(p) /\ TempOpen
  BY DEF HandleOpen, TempOpen
<1> QED BY <1>1, DtMoveStep

LEMMA CloseHandleStep ==
  ASSUME DtInv, NEW p \in Preparers, CloseHandle(p)
  PROVE  DtInv'
BY DtMoveStep DEF CloseHandle, HandleOpen

LEMMA KillStep ==
  ASSUME DtInv, NEW p \in Preparers, DtKill(p)
  PROVE  DtInv'
<1> USE DEF DtKill
<1>1. dtPc'[p] = "idle" /\ \A q \in Preparers \ {p} : dtPc'[q] = dtPc[q]
  BY DtKnown
<1>2. CASE dtTemp # NoFile /\ dtTemp.by = p
  <2>1. dtTemp' \in Downloads /\ dtTemp'.by = Killed
    BY <1>2, DtKnown DEF Downloads
  <2>2. OpenIsOwn'
    <3>1. \A q \in Preparers \ {p} : ~HandleOpen(q)
      BY <1>2, DtKnown DEF OpenIsOwn
    <3> QED BY <1>1, <3>1 DEF OpenIsOwn, HandleOpen
  <2>3. LeftIsKilled'
    BY <2>1 DEF LeftIsKilled
  <2> QED BY <2>1, <2>2, <2>3, DtStepOf
<1>3. CASE ~(dtTemp # NoFile /\ dtTemp.by = p)
  <2>1. dtTemp' = dtTemp
    BY <1>3
  <2>2. OpenIsOwn'
    BY <1>1, <2>1, DtKnown DEF OpenIsOwn, HandleOpen
  <2>3. LeftIsKilled'
    BY <1>1, <1>3, <2>1, DtKnown DEF LeftIsKilled, HandleOpen
  <2> QED BY <2>1, <2>2, <2>3, DtKnown, DtStepOf
<1> QED BY <1>2, <1>3

LEMMA HostStep ==
  ASSUME DtInv, DtHostChanges
  PROVE  DtInv'
<1> USE DEF DtHostChanges
<1>1. dtHost \in DtHosts
  BY DEF DtInv, DtTypeOK
<1>2. dtHost' \in DtHosts
  <2>1. ASSUME NEW gpus \in SUBSET Gpus, dtHost' = [dtHost EXCEPT !.gpus = gpus]
        PROVE  dtHost' \in DtHosts
    BY <1>1, <2>1 DEF DtHosts
  <2>2. ASSUME NEW gpu \in Gpus, NEW names \in SUBSET Packages,
               dtHost' = [dtHost EXCEPT !.packages[gpu] = names]
        PROVE  dtHost' \in DtHosts
    BY <1>1, <2>2 DEF DtHosts
  <2> QED BY <2>1, <2>2
<1>3. dtChanges' \in 0 .. MaxHostChanges
  BY DriverAssumption DEF DtInv, DtTypeOK
<1>4. DtTypeOK'
  BY <1>2, <1>3 DEF DtInv, DtTypeOK
<1>5. DownloadOwned' /\ dtArtifact' = NoPayload
  BY DEF DtInv, DownloadOwned, HandleOpen
<1> QED BY <1>4, <1>5 DEF DtInv

-----------------------------------------------------------------------------
(* The invariant. *)

LEMMA DtInitially == DtInit => DtInv
<1> SUFFICES ASSUME DtInit PROVE DtInv
  OBVIOUS
<1>1. PICK host \in DtHosts : DtStart(host)
  BY DEF DtInit
<1> USE DEF DtStart
<1>2. 0 \in 0 .. MaxHostChanges
  BY DriverAssumption
<1>3. DtTypeOK
  BY <1>1, <1>2 DEF DtTypeOK
<1>4. DownloadOwned /\ dtArtifact = NoPayload
  BY <1>1 DEF DownloadOwned, HandleOpen
<1> QED BY <1>3, <1>4 DEF DtInv

LEMMA DtInductive == DtInv /\ [DtNext]_dtVars => DtInv'
<1> SUFFICES ASSUME DtInv, [DtNext]_dtVars PROVE DtInv'
  OBVIOUS
<1>1. ASSUME NEW p \in Preparers, prepare_nvidia_driver(p) PROVE DtInv'
  BY <1>1, DtMoveStep DEF prepare_nvidia_driver
<1>2. ASSUME NEW p \in Preparers, DtWork(p) \/ DtKill(p) PROVE DtInv'
  BY <1>2, DeleteStep, CreateStep, DownloadStep, RenameStep, CloseHandleStep, KillStep DEF DtWork
<1>3. CASE DtHostChanges
  BY <1>3, HostStep
<1>4. CASE UNCHANGED dtVars
  BY <1>4 DEF dtVars, DtInv, DtTypeOK, DownloadOwned, HandleOpen
<1> QED BY <1>1, <1>2, <1>3, <1>4 DEF DtNext

(* Downloads belong to whoever has them open, and no artifact is ever      *)
(* published (capability/native.rs, acquire).                              *)
THEOREM PreparationInvariant == DtSpec => []DtInv
BY DtInitially, DtInductive, PTL DEF DtSpec

(* No preparation deletes or replaces a download that another one has      *)
(* open, and only a kill leaves one behind (capability/native.rs, acquire, *)
(* delete_if_present).                                                     *)
THEOREM DownloadsOwned == DtSpec => []DownloadOwned
<1>1. DtInv => DownloadOwned
  BY DEF DtInv
<1> QED BY <1>1, PreparationInvariant, PTL

=============================================================================
