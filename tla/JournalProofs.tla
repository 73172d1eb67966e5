---------------------------- MODULE JournalProofs ----------------------------
(***************************************************************************)
(* Proofs about the rows that journal first values in backup.json and      *)
(* restore from it: DrsProfile, GameConfig, Interrupts and SystemRows.     *)
(*                                                                         *)
(* A row may run again over its own entries, fail half way or end with its *)
(* process, and a restore may do the same, so the journal and the machine  *)
(* are never known to agree.  Each invariant says what still ties them     *)
(* together.  DrInv: the oldest entry is the capture of the first store    *)
(* and is undone last.  CfgInv: a deployed file has an entry, and an entry *)
(* with deployed bytes has an older one, unless a restore took that away   *)
(* first.  InInv: a value that is not the first one has a record of the    *)
(* first one.  SyInv: the same for registry values, services, plans,       *)
(* tasks, the tick and HAGS, while nobody else changes them.               *)
(*                                                                         *)
(* The batches are appended by recursive functions (push_all).  What they  *)
(* compute is shown by induction over a set of natural numbers             *)
(* (SetInduction), a first-order consequence of the well-founded minimum.  *)
(***************************************************************************)
EXTENDS DrsProfile, GameConfig, Interrupts, SystemRows, FiniteSetTheorems, SequenceTheorems,
        TLAPS

-----------------------------------------------------------------------------
(* Induction over the natural numbers for a set, and finite sets as        *)
(* sequences.                                                              *)

LEMMA LeastNatural ==
  ASSUME NEW T, T \subseteq Nat, T # {}
  PROVE  \E x \in T : \A y \in T : x <= y
<1>1. PICK x \in T : \A y \in T : ~ (<<y, x>> \in {ss \in Nat \X Nat : ss[1] < ss[2]})
  <2>1. IsWellFoundedOn({ss \in Nat \X Nat : ss[1] < ss[2]}, Nat)
    BY NatLessThanWellFounded DEF OpToRel
  <2>2. \E x \in T : \A y \in T : ~ (<<y, x>> \in {ss \in Nat \X Nat : ss[1] < ss[2]})
    BY <2>1, WFMin
  <2> QED BY <2>2
<1>2. \A y \in T : ~ (y < x)
  BY <1>1
<1> QED BY <1>2

LEMMA SetInduction ==
  ASSUME NEW S, 0 \in S, \A n \in Nat : n \in S => n + 1 \in S
  PROVE  Nat \subseteq S
<1> SUFFICES ASSUME NEW m \in Nat \ S PROVE FALSE
  OBVIOUS
<1>1. PICK n \in Nat \ S : \A k \in Nat \ S : n <= k
  BY LeastNatural
<1>2. n # 0 /\ n - 1 \in Nat
  BY <1>1
<1>3. n - 1 \in S
  BY <1>1, <1>2
<1> QED BY <1>1, <1>2, <1>3

LEMMA SetToSeqShape ==
  ASSUME NEW S, IsFiniteSet(S)
  PROVE  /\ SetToSeq(S) \in Seq(S) /\ Len(SetToSeq(S)) = Cardinality(S)
         /\ S # {} => SetToSeq(S) # <<>>
<1>1. Cardinality(S) \in Nat /\ ExistsBijection(1..Cardinality(S), S)
  BY FS_CardinalityType
<1>2. \E f \in [1..Cardinality(S) -> S] : IsInjective(f)
  BY <1>1 DEF ExistsBijection, Bijection, Injection
<1>3. SetToSeq(S) \in [1..Cardinality(S) -> S]
  BY <1>2 DEF SetToSeq
<1>4. SetToSeq(S) \in Seq(S) /\ Len(SetToSeq(S)) = Cardinality(S)
  BY <1>1, <1>3
<1>5. S # {} => Cardinality(S) # 0
  BY FS_EmptySet
<1> QED BY <1>4, <1>5

-----------------------------------------------------------------------------
(* The NVIDIA profile: stores and entries. *)

LEMMA Constants ==
  /\ DrsProfiles = {"Counter-strike 2", "Counter-Strike 2"}
  /\ DrsApps = {"cs2.exe", "csgos2.exe"}
  /\ CS2_PROFILE_NAME \in DrsProfiles
  /\ None \notin DrsProfiles /\ GLOBAL_PROFILE_NAME \notin DrsProfiles
  /\ CS2_SETTINGS \in [DrsSettings -> UserValues \cup {None, "suite"}]
  /\ NoSettings \in [DrsSettings -> UserValues \cup {None, "suite"}]
  /\ \A s \in DrsSettings : CS2_SETTINGS[s] # None
<1>1. ASSUME NEW a, NEW b PROVE ToSet(<<a, b>>) = {a, b}
  <2>1. /\ DOMAIN <<a, b>> = 1..2 /\ 1..2 = {1, 2}
        /\ <<a, b>>[1] = a /\ <<a, b>>[2] = b
    OBVIOUS
  <2> QED BY <2>1 DEF ToSet
<1>2. DrsProfiles = {"Counter-strike 2", "Counter-Strike 2"}
  BY <1>1 DEF DrsProfiles, CS2_PROFILE_ALIASES, CS2_PROFILE_NAME
<1>3. DrsApps = {"cs2.exe", "csgos2.exe"}
  BY <1>1 DEF DrsApps, CS2_APPLICATIONS
<1> QED
  BY <1>2, <1>3 DEF CS2_PROFILE_NAME, None, GLOBAL_PROFILE_NAME, CS2_SETTINGS, NoSettings

(* A profile found is a profile there is, and none is found only when no   *)
(* alias is there; which one depends on the owner of cs2.exe and on the    *)
(* profiles alone.                                                         *)
LEMMA FoundProfile ==
  ASSUME NEW st \in ReachedStores
  PROVE  \/ /\ find_existing_profile(st) = {} /\ st.profiles = {}
            /\ st.owner["cs2.exe"] \notin DrsProfiles
         \/ \E q \in DrsProfiles : find_existing_profile(st) = {q} /\ q \in st.profiles
<1>1. /\ st.profiles \subseteq DrsProfiles
      /\ \A a \in DrsApps : st.owner[a] \in DrsProfiles => st.owner[a] \in st.profiles
  BY DEF ReachedStores
<1>2. CASE st.owner["cs2.exe"] \in DrsProfiles
  BY <1>1, <1>2, Constants DEF find_existing_profile
<1>3. CASE st.owner["cs2.exe"] \notin DrsProfiles
  <2> DEFINE there == {i \in DOMAIN CS2_PROFILE_ALIASES : CS2_PROFILE_ALIASES[i] \in st.profiles}
  <2>1. /\ DOMAIN CS2_PROFILE_ALIASES = {1, 2}
        /\ CS2_PROFILE_ALIASES[1] = "Counter-strike 2"
        /\ CS2_PROFILE_ALIASES[2] = "Counter-Strike 2"
    BY DEF CS2_PROFILE_ALIASES, CS2_PROFILE_NAME
  <2>2. find_existing_profile(st) =
          {CS2_PROFILE_ALIASES[i] : i \in {i \in there : \A j \in there : i <= j}}
    BY <1>3 DEF find_existing_profile
  <2>3. CASE "Counter-strike 2" \in st.profiles
    <3>1. there \subseteq {1, 2} /\ 1 \in there
      BY <2>1, <2>3
    <3>2. {i \in there : \A j \in there : i <= j} = {1}
      <4> HIDE DEF there
      <4>1. ASSUME NEW i \in there, \A j \in there : i <= j PROVE i = 1
        BY <3>1, <4>1
      <4>2. \A j \in there : 1 <= j
        BY <3>1
      <4> QED BY <3>1, <4>1, <4>2
    <3>3. find_existing_profile(st) = {"Counter-strike 2"}
      <4> HIDE DEF there
      <4> QED BY <2>1, <2>2, <3>2
    <3> QED BY <2>3, <3>3, Constants
  <2>4. CASE "Counter-strike 2" \notin st.profiles /\ "Counter-Strike 2" \in st.profiles
    <3>1. there = {2}
      BY <2>1, <2>4
    <3>2. {i \in there : \A j \in there : i <= j} = {2}
      <4> HIDE DEF there
      <4> QED BY <3>1
    <3>3. find_existing_profile(st) = {"Counter-Strike 2"}
      <4> HIDE DEF there
      <4> QED BY <2>1, <2>2, <3>2
    <3> QED BY <2>4, <3>3, Constants
  <2>5. CASE "Counter-strike 2" \notin st.profiles /\ "Counter-Strike 2" \notin st.profiles
    <3>1. there = {}
      BY <2>1, <2>5
    <3>2. st.profiles = {}
      BY <1>1, <2>5, Constants
    <3> QED BY <1>3, <2>2, <3>1, <3>2
  <2> QED BY <2>3, <2>4, <2>5
<1> QED BY <1>2, <1>3

LEMMA SameFound ==
  ASSUME NEW st, NEW other, st.owner["cs2.exe"] = other.owner["cs2.exe"],
         st.profiles = other.profiles
  PROVE  find_existing_profile(st) = find_existing_profile(other)
BY DEF find_existing_profile

(* What a capture holds. *)
LEMMA Capture ==
  ASSUME NEW st \in ReachedStores
  PROVE  /\ capture_cs2_backup(st) \in DrsEntries
         /\ capture_cs2_backup(st).owner = st.owner
         /\ \/ /\ capture_cs2_backup(st).created = TRUE
               /\ find_existing_profile(st) = {} /\ st.profiles = {}
               /\ st.owner["cs2.exe"] \notin DrsProfiles
               /\ capture_cs2_backup(st).profile = CS2_PROFILE_NAME
               /\ capture_cs2_backup(st).settings = NoSettings
               /\ st.value[capture_cs2_backup(st).profile] = NoSettings
            \/ /\ capture_cs2_backup(st).created = FALSE
               /\ find_existing_profile(st) = {capture_cs2_backup(st).profile}
               /\ capture_cs2_backup(st).profile \in st.profiles
               /\ capture_cs2_backup(st).settings = st.value[capture_cs2_backup(st).profile]
<1>1. /\ st.owner \in [DrsApps -> DrsProfiles \cup {None, GLOBAL_PROFILE_NAME}]
      /\ st.value \in [DrsProfiles -> [DrsSettings -> UserValues \cup {None, "suite"}]]
      /\ \A p \in DrsProfiles : p \notin st.profiles => st.value[p] = NoSettings
  BY DEF ReachedStores
<1>2. CASE find_existing_profile(st) = {} /\ st.profiles = {}
  <2>1. capture_cs2_backup(st) =
          [profile |-> CS2_PROFILE_NAME, created |-> TRUE, owner |-> st.owner,
           settings |-> NoSettings]
    BY <1>2 DEF capture_cs2_backup
  <2>2. st.value[CS2_PROFILE_NAME] = NoSettings
    BY <1>1, <1>2, Constants
  <2>3. st.owner["cs2.exe"] \notin DrsProfiles
    BY <1>2, Constants DEF ReachedStores
  <2>4. capture_cs2_backup(st) \in DrsEntries
    <3>1. /\ CS2_PROFILE_NAME \in DrsProfiles
          /\ NoSettings \in [DrsSettings -> UserValues \cup {None, "suite"}]
      BY Constants
    <3> QED BY <1>1, <2>1, <3>1 DEF DrsEntries
  <2>5. /\ capture_cs2_backup(st).profile = CS2_PROFILE_NAME
        /\ capture_cs2_backup(st).created = TRUE
        /\ capture_cs2_backup(st).owner = st.owner
        /\ capture_cs2_backup(st).settings = NoSettings
    BY <2>1
  <2> QED BY <1>2, <2>2, <2>3, <2>4, <2>5
<1>3. ASSUME NEW q \in DrsProfiles, find_existing_profile(st) = {q}, q \in st.profiles
      PROVE  capture_cs2_backup(st) =
               [profile |-> q, created |-> FALSE, owner |-> st.owner, settings |-> st.value[q]]
  <2>1. (CHOOSE r \in {q} : TRUE) = q
    OBVIOUS
  <2> QED BY <1>3, <2>1 DEF capture_cs2_backup
<1>4. ASSUME NEW q \in DrsProfiles, find_existing_profile(st) = {q}, q \in st.profiles
      PROVE  /\ capture_cs2_backup(st) \in DrsEntries
             /\ capture_cs2_backup(st).owner = st.owner
             /\ capture_cs2_backup(st).created = FALSE
             /\ capture_cs2_backup(st).profile = q
             /\ capture_cs2_backup(st).settings = st.value[q]
  <2>1. capture_cs2_backup(st) =
          [profile |-> q, created |-> FALSE, owner |-> st.owner, settings |-> st.value[q]]
    BY <1>3, <1>4
  <2>2. st.value[q] \in [DrsSettings -> UserValues \cup {None, "suite"}]
    BY <1>1
  <2>3. capture_cs2_backup(st) \in DrsEntries
    BY <1>1, <2>1, <2>2 DEF DrsEntries
  <2> QED BY <2>1, <2>3
<1> QED BY <1>2, <1>4, FoundProfile

(* The stores the suite brings about, by their parts. *)
LEMMA AppliedParts ==
  ASSUME NEW f \in ReachedStores,
         capture_application_originals(f, find_existing_profile(f))
  PROVE  /\ Applied(f).profiles = f.profiles \cup {capture_cs2_backup(f).profile}
         /\ Applied(f).owner = [a \in DrsApps |-> capture_cs2_backup(f).profile]
         /\ Applied(f).value = [f.value EXCEPT ![capture_cs2_backup(f).profile] = CS2_SETTINGS]
         /\ capture_cs2_backup(f).created => \A a \in DrsApps : f.owner[a] = None
         /\ ~capture_cs2_backup(f).created => \A a \in DrsApps : f.owner[a] \in {capture_cs2_backup(f).profile, None}
         /\ Applied(f) = [profiles |-> Applied(f).profiles, owner |-> Applied(f).owner,
                          value |-> Applied(f).value]
<1> DEFINE b == capture_cs2_backup(f)
<1>1. \A a \in DrsApps : f.owner[a] \in find_existing_profile(f) \cup {None}
  BY DEF capture_application_originals
<1>2. /\ b.owner = f.owner
      /\ b.created = TRUE => find_existing_profile(f) = {}
      /\ b.created = FALSE => find_existing_profile(f) = {b.profile}
      /\ b.created = TRUE \/ b.created = FALSE
  BY Capture
<1>3. /\ b.created => \A a \in DrsApps : f.owner[a] = None
      /\ ~b.created => \A a \in DrsApps : f.owner[a] \in {b.profile, None}
  BY <1>1, <1>2
<1>4. \A a \in DrsApps : (IF b.owner[a] = None THEN b.profile ELSE f.owner[a]) = b.profile
  BY <1>2, <1>3
<1>5. Applied(f) = [profiles |-> f.profiles \cup {b.profile},
                    owner |-> [a \in DrsApps |-> b.profile],
                    value |-> [f.value EXCEPT ![b.profile] = CS2_SETTINGS]]
  BY <1>4 DEF Applied, apply_cs2_profile
<1> QED BY <1>3, <1>5

LEMMA UnboundParts ==
  ASSUME NEW f \in ReachedStores, capture_cs2_backup(f).created = FALSE
  PROVE  /\ Unbound(f).profiles = f.profiles
         /\ Unbound(f).owner = f.owner
         /\ Unbound(f).value = [f.value EXCEPT ![capture_cs2_backup(f).profile] = CS2_SETTINGS]
         /\ Unbound(f) = [profiles |-> f.profiles, owner |-> f.owner, value |-> Unbound(f).value]
<1>1. f = [profiles |-> f.profiles, owner |-> f.owner, value |-> f.value]
  BY DEF ReachedStores
<1>2. Unbound(f) = [f EXCEPT !.value[capture_cs2_backup(f).profile] = CS2_SETTINGS]
  BY DEF Unbound
<1> QED BY <1>1, <1>2

(* They keep the shape, and so do restores of any entry. *)
LEMMA AppliedReached ==
  ASSUME NEW st \in ReachedStores, NEW b \in DrsEntries
  PROVE  apply_cs2_profile(st, b) \in ReachedStores
<1> DEFINE r == apply_cs2_profile(st, b)
<1>1. /\ st.profiles \subseteq DrsProfiles
      /\ st.owner \in [DrsApps -> DrsProfiles \cup {None, GLOBAL_PROFILE_NAME}]
      /\ st.value \in [DrsProfiles -> [DrsSettings -> UserValues \cup {None, "suite"}]]
      /\ \A a \in DrsApps : st.owner[a] \in DrsProfiles => st.owner[a] \in st.profiles
      /\ \A p \in DrsProfiles : p \notin st.profiles => st.value[p] = NoSettings
      /\ b.profile \in DrsProfiles
  BY DEF ReachedStores, DrsEntries
<1>2. CS2_SETTINGS \in [DrsSettings -> UserValues \cup {None, "suite"}]
  BY Constants
<1>3. /\ r = [profiles |-> r.profiles, owner |-> r.owner, value |-> r.value]
      /\ r.profiles = st.profiles \cup {b.profile}
      /\ r.owner = [a \in DrsApps |-> IF b.owner[a] = None THEN b.profile ELSE st.owner[a]]
      /\ r.value = [st.value EXCEPT ![b.profile] = CS2_SETTINGS]
  BY DEF apply_cs2_profile
<1> HIDE DEF r
<1>4. r.owner \in [DrsApps -> DrsProfiles \cup {None, GLOBAL_PROFILE_NAME}]
  BY <1>1, <1>3
<1>5. r.value \in [DrsProfiles -> [DrsSettings -> UserValues \cup {None, "suite"}]]
  BY <1>1, <1>2, <1>3
<1>6. \A a \in DrsApps : r.owner[a] \in DrsProfiles => r.owner[a] \in r.profiles
  BY <1>1, <1>3
<1>7. \A p \in DrsProfiles : p \notin r.profiles => r.value[p] = NoSettings
  BY <1>1, <1>3
<1>8. r \in [profiles : SUBSET DrsProfiles,
             owner : [DrsApps -> DrsProfiles \cup {None, GLOBAL_PROFILE_NAME}],
             value : [DrsProfiles -> [DrsSettings -> UserValues \cup {None, "suite"}]]]
  BY <1>1, <1>3, <1>4, <1>5
<1>9. r \in ReachedStores
  BY <1>6, <1>7, <1>8 DEF ReachedStores
<1> QED BY <1>9 DEF r

LEMMA RestoredReached ==
  ASSUME NEW st \in ReachedStores, NEW b \in DrsEntries, b.profile \in st.profiles
  PROVE  restore_cs2_profile(st, b) \in ReachedStores
<1> DEFINE r == restore_cs2_profile(st, b)
<1>1. /\ st.profiles \subseteq DrsProfiles
      /\ st.owner \in [DrsApps -> DrsProfiles \cup {None, GLOBAL_PROFILE_NAME}]
      /\ st.value \in [DrsProfiles -> [DrsSettings -> UserValues \cup {None, "suite"}]]
      /\ \A a \in DrsApps : st.owner[a] \in DrsProfiles => st.owner[a] \in st.profiles
      /\ \A p \in DrsProfiles : p \notin st.profiles => st.value[p] = NoSettings
      /\ b.profile \in DrsProfiles
      /\ b.settings \in [DrsSettings -> UserValues \cup {None, "suite"}]
      /\ st = [profiles |-> st.profiles, owner |-> st.owner, value |-> st.value]
  BY DEF ReachedStores, DrsEntries
<1>2. /\ NoSettings \in [DrsSettings -> UserValues \cup {None, "suite"}]
      /\ None \notin DrsProfiles
  BY Constants
<1>3. CASE b.created
  <2>1. /\ r = [profiles |-> r.profiles, owner |-> r.owner, value |-> r.value]
        /\ r.profiles = st.profiles \ {b.profile}
        /\ r.owner = [a \in DrsApps |-> IF st.owner[a] = b.profile THEN None ELSE st.owner[a]]
        /\ r.value = [st.value EXCEPT ![b.profile] = NoSettings]
    BY <1>3 DEF restore_cs2_profile
  <2> HIDE DEF r
  <2>2. r.owner \in [DrsApps -> DrsProfiles \cup {None, GLOBAL_PROFILE_NAME}]
    BY <1>1, <2>1
  <2>3. r.value \in [DrsProfiles -> [DrsSettings -> UserValues \cup {None, "suite"}]]
    BY <1>1, <1>2, <2>1
  <2>4. \A a \in DrsApps : r.owner[a] \in DrsProfiles => r.owner[a] \in r.profiles
    BY <1>1, <1>2, <2>1
  <2>5. \A p \in DrsProfiles : p \notin r.profiles => r.value[p] = NoSettings
    BY <1>1, <2>1
  <2>6. r \in [profiles : SUBSET DrsProfiles,
               owner : [DrsApps -> DrsProfiles \cup {None, GLOBAL_PROFILE_NAME}],
               value : [DrsProfiles -> [DrsSettings -> UserValues \cup {None, "suite"}]]]
    BY <1>1, <2>1, <2>2, <2>3
  <2>7. r \in ReachedStores
    BY <2>4, <2>5, <2>6 DEF ReachedStores
  <2> QED BY <2>7 DEF r
<1>4. CASE ~b.created
  <2>1. r = [st EXCEPT !.value[b.profile] = b.settings,
                       !.owner = [a \in DrsApps |-> IF b.owner[a] = None THEN None ELSE @[a]]]
    BY <1>4 DEF restore_cs2_profile
  <2>2. /\ r = [profiles |-> r.profiles, owner |-> r.owner, value |-> r.value]
        /\ r.profiles = st.profiles
        /\ r.owner = [a \in DrsApps |-> IF b.owner[a] = None THEN None ELSE st.owner[a]]
        /\ r.value = [st.value EXCEPT ![b.profile] = b.settings]
    <3> HIDE DEF r
    <3> QED BY <1>1, <2>1
  <2> HIDE DEF r
  <2>3. r.owner \in [DrsApps -> DrsProfiles \cup {None, GLOBAL_PROFILE_NAME}]
    BY <1>1, <2>2
  <2>4. r.value \in [DrsProfiles -> [DrsSettings -> UserValues \cup {None, "suite"}]]
    BY <1>1, <2>2
  <2>5. \A a \in DrsApps : r.owner[a] \in DrsProfiles => r.owner[a] \in r.profiles
    BY <1>1, <1>2, <2>2
  <2>6. \A p \in DrsProfiles : p \notin r.profiles => r.value[p] = NoSettings
    BY <1>1, <2>2
  <2>7. r \in [profiles : SUBSET DrsProfiles,
               owner : [DrsApps -> DrsProfiles \cup {None, GLOBAL_PROFILE_NAME}],
               value : [DrsProfiles -> [DrsSettings -> UserValues \cup {None, "suite"}]]]
    BY <1>1, <2>2, <2>3, <2>4
  <2>8. r \in ReachedStores
    BY <2>5, <2>6, <2>7 DEF ReachedStores
  <2> QED BY <2>8 DEF r
<1> QED BY <1>3, <1>4

LEMMA UnboundReached ==
  ASSUME NEW f \in ReachedStores, capture_cs2_backup(f).created = FALSE
  PROVE  Unbound(f) \in ReachedStores
<1> DEFINE r == Unbound(f)
           p == capture_cs2_backup(f).profile
<1>1. /\ f.profiles \subseteq DrsProfiles
      /\ f.owner \in [DrsApps -> DrsProfiles \cup {None, GLOBAL_PROFILE_NAME}]
      /\ f.value \in [DrsProfiles -> [DrsSettings -> UserValues \cup {None, "suite"}]]
      /\ \A a \in DrsApps : f.owner[a] \in DrsProfiles => f.owner[a] \in f.profiles
      /\ \A q \in DrsProfiles : q \notin f.profiles => f.value[q] = NoSettings
  BY DEF ReachedStores
<1>2. /\ CS2_SETTINGS \in [DrsSettings -> UserValues \cup {None, "suite"}]
      /\ p \in f.profiles
  BY Constants, Capture
<1>3. /\ r = [profiles |-> r.profiles, owner |-> r.owner, value |-> r.value]
      /\ r.profiles = f.profiles /\ r.owner = f.owner
      /\ r.value = [f.value EXCEPT ![p] = CS2_SETTINGS]
  BY UnboundParts
<1> HIDE DEF r, p
<1>4. r.value \in [DrsProfiles -> [DrsSettings -> UserValues \cup {None, "suite"}]]
  BY <1>1, <1>2, <1>3
<1>5. \A q \in DrsProfiles : q \notin r.profiles => r.value[q] = NoSettings
  BY <1>1, <1>2, <1>3
<1>6. r \in [profiles : SUBSET DrsProfiles,
             owner : [DrsApps -> DrsProfiles \cup {None, GLOBAL_PROFILE_NAME}],
             value : [DrsProfiles -> [DrsSettings -> UserValues \cup {None, "suite"}]]]
  BY <1>1, <1>3, <1>4
<1>7. r \in ReachedStores
  BY <1>1, <1>3, <1>5, <1>6 DEF ReachedStores
<1> QED BY <1>7 DEF r

(* The entries a run may journal: of the first store, of the suite's, and  *)
(* of the suite's without its registrations.                               *)
LEMMA AppliedEntry ==
  ASSUME NEW f \in ReachedStores, NEW p, p = capture_cs2_backup(f).profile,
         capture_application_originals(f, find_existing_profile(f))
  PROVE  /\ Applied(f) \in ReachedStores
         /\ capture_cs2_backup(Applied(f)) =
              [profile |-> p, created |-> FALSE, owner |-> [a \in DrsApps |-> p],
               settings |-> CS2_SETTINGS]
<1>1. capture_cs2_backup(f) \in DrsEntries
  BY Capture
<1>2. Applied(f) \in ReachedStores
  BY <1>1, AppliedReached DEF Applied
<1>3. p \in DrsProfiles /\ "cs2.exe" \in DrsApps
  BY <1>1, Constants DEF DrsEntries
<1>4. /\ Applied(f).owner = [a \in DrsApps |-> p]
      /\ Applied(f).value = [f.value EXCEPT ![p] = CS2_SETTINGS]
  BY AppliedParts
<1>5. find_existing_profile(Applied(f)) = {p}
  BY <1>3, <1>4 DEF find_existing_profile
<1>6. Applied(f).value[p] = CS2_SETTINGS
  BY <1>3, <1>4 DEF ReachedStores
<1>7. (CHOOSE q \in {p} : TRUE) = p
  OBVIOUS
<1> QED BY <1>2, <1>4, <1>5, <1>6, <1>7 DEF capture_cs2_backup

LEMMA UnboundEntry ==
  ASSUME NEW f \in ReachedStores, NEW p, p = capture_cs2_backup(f).profile,
         capture_cs2_backup(f).created = FALSE
  PROVE  /\ Unbound(f) \in ReachedStores
         /\ capture_cs2_backup(Unbound(f)) =
              [profile |-> p, created |-> FALSE, owner |-> f.owner, settings |-> CS2_SETTINGS]
<1>1. capture_cs2_backup(f) \in DrsEntries /\ find_existing_profile(f) = {p}
  BY Capture
<1>2. p \in DrsProfiles
  BY <1>1 DEF DrsEntries
<1>3. /\ Unbound(f).owner = f.owner /\ Unbound(f).profiles = f.profiles
      /\ Unbound(f).value = [f.value EXCEPT ![p] = CS2_SETTINGS]
  BY UnboundParts
<1>4. find_existing_profile(Unbound(f)) = {p}
  BY <1>1, <1>3, SameFound
<1>5. Unbound(f).value[p] = CS2_SETTINGS
  BY <1>2, <1>3 DEF ReachedStores
<1>6. (CHOOSE q \in {p} : TRUE) = p
  OBVIOUS
<1> QED BY <1>3, <1>4, <1>5, <1>6, UnboundReached DEF capture_cs2_backup

(* What the suite's stores and entries have in common. *)
StoreShape(f, e, st) ==
  \/ st = f
  \/ /\ st.profiles = f.profiles \cup {e.profile}
     /\ st.owner = [a \in DrsApps |-> e.profile]
     /\ st.value = [f.value EXCEPT ![e.profile] = CS2_SETTINGS]
  \/ /\ e.created = FALSE
     /\ st.profiles = f.profiles /\ st.owner = f.owner
     /\ st.value = [f.value EXCEPT ![e.profile] = CS2_SETTINGS]

EntryShape(f, e, b) ==
  \/ b = e
  \/ /\ b.profile = e.profile /\ b.created = FALSE /\ b.settings = CS2_SETTINGS
     /\ \/ b.owner = [a \in DrsApps |-> e.profile]
        \/ b.owner = f.owner /\ e.created = FALSE

LEMMA ReachStore ==
  ASSUME NEW f \in ReachedStores, NEW st \in Reach(f),
         capture_application_originals(f, find_existing_profile(f))
  PROVE  st \in ReachedStores /\ StoreShape(f, capture_cs2_backup(f), st)
<1> DEFINE e == capture_cs2_backup(f)
<1>1. CASE st = f
  BY <1>1 DEF StoreShape
<1>2. CASE st = Applied(f)
  <2>1. Applied(f) \in ReachedStores
    BY AppliedEntry
  <2>2. /\ Applied(f).profiles = f.profiles \cup {e.profile}
        /\ Applied(f).owner = [a \in DrsApps |-> e.profile]
        /\ Applied(f).value = [f.value EXCEPT ![e.profile] = CS2_SETTINGS]
    BY AppliedParts
  <2> QED BY <1>2, <2>1, <2>2 DEF StoreShape
<1>3. CASE st = Unbound(f) /\ e.created = FALSE
  <2>1. Unbound(f) \in ReachedStores
    BY <1>3, UnboundEntry
  <2>2. /\ Unbound(f).profiles = f.profiles /\ Unbound(f).owner = f.owner
        /\ Unbound(f).value = [f.value EXCEPT ![e.profile] = CS2_SETTINGS]
    BY <1>3, UnboundParts
  <2> QED BY <1>3, <2>1, <2>2 DEF StoreShape
<1>4. e.created # FALSE => Unbound(f) = Applied(f)
  BY Capture DEF Unbound
<1> QED BY <1>1, <1>2, <1>3, <1>4 DEF Reach

LEMMA ReachEntry ==
  ASSUME NEW f \in ReachedStores, NEW b \in ReachEntries(f),
         capture_application_originals(f, find_existing_profile(f))
  PROVE  EntryShape(f, capture_cs2_backup(f), b)
<1> DEFINE e == capture_cs2_backup(f)
<1>1. PICK st \in Reach(f) : b = capture_cs2_backup(st)
  BY DEF ReachEntries
<1>2. CASE st = f
  BY <1>1, <1>2 DEF EntryShape
<1>3. CASE st = Applied(f)
  <2>1. capture_cs2_backup(Applied(f)) =
          [profile |-> e.profile, created |-> FALSE, owner |-> [a \in DrsApps |-> e.profile],
           settings |-> CS2_SETTINGS]
    BY AppliedEntry
  <2> QED BY <1>1, <1>3, <2>1 DEF EntryShape
<1>4. CASE st = Unbound(f) /\ e.created = FALSE
  <2>1. capture_cs2_backup(Unbound(f)) =
          [profile |-> e.profile, created |-> FALSE, owner |-> f.owner, settings |-> CS2_SETTINGS]
    BY <1>4, UnboundEntry
  <2> QED BY <1>1, <1>4, <2>1 DEF EntryShape
<1>5. e.created # FALSE => Unbound(f) = Applied(f)
  BY Capture DEF Unbound
<1> QED BY <1>2, <1>3, <1>4, <1>5 DEF Reach

(* restore_cs2_profile, by its parts. *)
RestoredShape(st, b, r) ==
  /\ r = [profiles |-> r.profiles, owner |-> r.owner, value |-> r.value]
  /\ b.created =>
       /\ r.profiles = st.profiles \ {b.profile}
       /\ r.owner = [a \in DrsApps |-> IF st.owner[a] = b.profile THEN None ELSE st.owner[a]]
       /\ r.value = [st.value EXCEPT ![b.profile] = NoSettings]
  /\ ~b.created =>
       /\ r.profiles = st.profiles
       /\ r.owner = [a \in DrsApps |-> IF b.owner[a] = None THEN None ELSE st.owner[a]]
       /\ r.value = [st.value EXCEPT ![b.profile] = b.settings]

LEMMA RestoredParts ==
  ASSUME NEW st \in ReachedStores, NEW b \in DrsEntries
  PROVE  RestoredShape(st, b, restore_cs2_profile(st, b))
<1> DEFINE r == restore_cs2_profile(st, b)
<1>1. st = [profiles |-> st.profiles, owner |-> st.owner, value |-> st.value]
  BY DEF ReachedStores
<1>2. CASE b.created
  BY <1>2 DEF restore_cs2_profile, RestoredShape
<1>3. CASE ~b.created
  <2>1. r = [st EXCEPT !.value[b.profile] = b.settings,
                       !.owner = [a \in DrsApps |-> IF b.owner[a] = None THEN None ELSE @[a]]]
    BY <1>3 DEF restore_cs2_profile
  <2>2. /\ r = [profiles |-> r.profiles, owner |-> r.owner, value |-> r.value]
        /\ r.profiles = st.profiles
        /\ r.owner = [a \in DrsApps |-> IF b.owner[a] = None THEN None ELSE st.owner[a]]
        /\ r.value = [st.value EXCEPT ![b.profile] = b.settings]
    <3> HIDE DEF r
    <3> QED BY <1>1, <2>1
  <2> QED BY <1>3, <2>2 DEF RestoredShape
<1> QED BY <1>2, <1>3

(* Writing the profile's values again forgets what was there. *)
LEMMA OneProfile ==
  ASSUME NEW v, NEW w, NEW p, NEW x, NEW s, w = [v EXCEPT ![p] = s]
  PROVE  [w EXCEPT ![p] = x] = [v EXCEPT ![p] = x]
<1>1. /\ DOMAIN [w EXCEPT ![p] = x] = DOMAIN v
      /\ DOMAIN [v EXCEPT ![p] = x] = DOMAIN v
  OBVIOUS
<1>2. \A q \in DOMAIN v : [w EXCEPT ![p] = x][q] = [v EXCEPT ![p] = x][q]
  OBVIOUS
<1> QED BY <1>1, <1>2

EntryRestorable(st, b) == b.profile \in st.profiles /\ (b.created \/ DeletionsPossible(st, b))

(* The oldest entry returns to the first store. *)
LEMMA RestoreOldest ==
  ASSUME NEW f \in ReachedStores, capture_application_originals(f, find_existing_profile(f)),
         NEW st \in Reach(f), EntryRestorable(st, capture_cs2_backup(f))
  PROVE  restore_cs2_profile(st, capture_cs2_backup(f)) = f
<1>1. PICK e : e = capture_cs2_backup(f)
  OBVIOUS
<1>2. PICK r : r = restore_cs2_profile(st, e)
  OBVIOUS
<1>3. /\ e \in DrsEntries /\ e.owner = f.owner
      /\ \/ /\ e.created = TRUE /\ f.profiles = {} /\ f.value[e.profile] = NoSettings
         \/ /\ e.created = FALSE /\ e.profile \in f.profiles
            /\ e.settings = f.value[e.profile]
  BY <1>1, Capture
<1>4. /\ st \in ReachedStores
      /\ \/ st = f
         \/ /\ st.profiles = f.profiles \cup {e.profile}
            /\ st.owner = [a \in DrsApps |-> e.profile]
            /\ st.value = [f.value EXCEPT ![e.profile] = CS2_SETTINGS]
         \/ /\ e.created = FALSE
            /\ st.profiles = f.profiles /\ st.owner = f.owner
            /\ st.value = [f.value EXCEPT ![e.profile] = CS2_SETTINGS]
  <2>1. st \in ReachedStores /\ StoreShape(f, e, st)
    BY <1>1, ReachStore
  <2> QED BY <2>1 DEF StoreShape
<1>5. /\ r = [profiles |-> r.profiles, owner |-> r.owner, value |-> r.value]
      /\ e.created =>
           /\ r.profiles = st.profiles \ {e.profile}
           /\ r.owner = [a \in DrsApps |-> IF st.owner[a] = e.profile THEN None ELSE st.owner[a]]
           /\ r.value = [st.value EXCEPT ![e.profile] = NoSettings]
      /\ ~e.created =>
           /\ r.profiles = st.profiles
           /\ r.owner = [a \in DrsApps |-> IF e.owner[a] = None THEN None ELSE st.owner[a]]
           /\ r.value = [st.value EXCEPT ![e.profile] = e.settings]
  <2>1. RestoredShape(st, e, r)
    BY <1>2, <1>3, <1>4, RestoredParts
  <2> QED BY <2>1 DEF RestoredShape
<1>6. /\ e.created => \A a \in DrsApps : f.owner[a] = None
      /\ ~e.created => \A a \in DrsApps : f.owner[a] \in {e.profile, None}
  BY <1>1, AppliedParts
<1>7. e.profile \in st.profiles /\ (e.created \/ DeletionsPossible(st, e))
  BY <1>1 DEF EntryRestorable
<1>8. /\ f = [profiles |-> f.profiles, owner |-> f.owner, value |-> f.value]
      /\ f.owner = [a \in DrsApps |-> f.owner[a]]
      /\ e.profile \in DrsProfiles /\ DOMAIN f.value = DrsProfiles
  BY <1>3 DEF ReachedStores, DrsEntries
<1>9. [st.value EXCEPT ![e.profile] = f.value[e.profile]] = f.value
  <2>1. [f.value EXCEPT ![e.profile] = f.value[e.profile]] = f.value
    BY <1>8 DEF ReachedStores
  <2> QED BY <1>4, <2>1, OneProfile
<1>10. CASE e.created = TRUE
  <2>1. /\ f.profiles = {} /\ st.profiles = f.profiles \cup {e.profile}
        /\ st.owner = [a \in DrsApps |-> e.profile]
    BY <1>3, <1>4, <1>7, <1>10
  <2>2. r.profiles = f.profiles
    BY <1>5, <1>10, <2>1
  <2>3. r.owner = f.owner
    BY <1>5, <1>6, <1>8, <1>10, <2>1
  <2>4. r.value = f.value
    BY <1>3, <1>5, <1>9, <1>10
  <2> QED BY <1>1, <1>2, <1>5, <1>8, <2>2, <2>3, <2>4
<1>11. CASE e.created = FALSE
  <2>2. r.profiles = f.profiles
    <3>1. f.profiles \cup {e.profile} = f.profiles
      BY <1>3, <1>11
    <3>2. st.profiles = f.profiles
      BY <1>4, <3>1
    <3> QED BY <1>5, <1>11, <3>2
  <2>3. \A a \in DrsApps : (IF e.owner[a] = None THEN None ELSE st.owner[a]) = f.owner[a]
    BY <1>3, <1>4, <1>6, <1>11
  <2>4. r.owner = f.owner
    BY <1>5, <1>8, <1>11, <2>3
  <2>5. r.value = f.value
    BY <1>3, <1>5, <1>9, <1>11
  <2> QED BY <1>1, <1>2, <1>5, <1>8, <2>2, <2>4, <2>5
<1> QED BY <1>3, <1>10, <1>11

(* A newer entry stays among the suite's stores.                           *)
LEMMA RestoreNewer ==
  ASSUME NEW f \in ReachedStores, capture_application_originals(f, find_existing_profile(f)),
         NEW st \in Reach(f), NEW b \in ReachEntries(f), b \in DrsEntries,
         b # capture_cs2_backup(f), EntryRestorable(st, b)
  PROVE  restore_cs2_profile(st, b) \in Reach(f)
<1>1. PICK e : e = capture_cs2_backup(f)
  OBVIOUS
<1>2. PICK r : r = restore_cs2_profile(st, b)
  OBVIOUS
<1>3. /\ e.profile \in DrsProfiles
      /\ \/ e.created = TRUE /\ f.profiles = {}
         \/ e.created = FALSE /\ e.profile \in f.profiles
  BY <1>1, Capture DEF DrsEntries
<1>4. /\ st \in ReachedStores
      /\ \/ st = f
         \/ /\ st.profiles = f.profiles \cup {e.profile}
            /\ st.owner = [a \in DrsApps |-> e.profile]
            /\ st.value = [f.value EXCEPT ![e.profile] = CS2_SETTINGS]
         \/ /\ e.created = FALSE
            /\ st.profiles = f.profiles /\ st.owner = f.owner
            /\ st.value = [f.value EXCEPT ![e.profile] = CS2_SETTINGS]
  <2>1. st \in ReachedStores /\ StoreShape(f, e, st)
    BY <1>1, ReachStore
  <2> QED BY <2>1 DEF StoreShape
<1>5. /\ b.profile = e.profile /\ b.created = FALSE /\ b.settings = CS2_SETTINGS
      /\ \/ b.owner = [a \in DrsApps |-> e.profile]
         \/ b.owner = f.owner /\ e.created = FALSE
  <2>1. EntryShape(f, e, b)
    BY <1>1, ReachEntry
  <2> QED BY <1>1, <2>1 DEF EntryShape
<1>6. /\ r = [profiles |-> r.profiles, owner |-> r.owner, value |-> r.value]
      /\ r.profiles = st.profiles
      /\ r.owner = [a \in DrsApps |-> IF b.owner[a] = None THEN None ELSE st.owner[a]]
      /\ r.value = [st.value EXCEPT ![e.profile] = CS2_SETTINGS]
  <2>1. RestoredShape(st, b, r)
    BY <1>2, <1>4, RestoredParts
  <2> QED BY <1>5, <2>1 DEF RestoredShape
<1>7. r.value = [f.value EXCEPT ![e.profile] = CS2_SETTINGS]
  BY <1>4, <1>6, OneProfile
<1>8. /\ e.profile \in st.profiles
      /\ \A a \in DrsApps : b.owner[a] = None => st.owner[a] = e.profile
  BY <1>5 DEF EntryRestorable, DeletionsPossible
<1>9. /\ e.created => \A a \in DrsApps : f.owner[a] = None
      /\ ~e.created => \A a \in DrsApps : f.owner[a] \in {e.profile, None}
      /\ Applied(f).profiles = f.profiles \cup {e.profile}
      /\ Applied(f).owner = [a \in DrsApps |-> e.profile]
      /\ Applied(f).value = [f.value EXCEPT ![e.profile] = CS2_SETTINGS]
      /\ Applied(f) = [profiles |-> Applied(f).profiles, owner |-> Applied(f).owner,
                       value |-> Applied(f).value]
  BY <1>1, AppliedParts
<1>10. e.created = FALSE =>
         /\ Unbound(f).profiles = f.profiles
         /\ Unbound(f).owner = f.owner
         /\ Unbound(f).value = [f.value EXCEPT ![e.profile] = CS2_SETTINGS]
         /\ Unbound(f) = [profiles |-> f.profiles, owner |-> f.owner, value |-> Unbound(f).value]
  BY <1>1, UnboundParts
<1>11. /\ st.owner = [a \in DrsApps |-> st.owner[a]] /\ f.owner = [a \in DrsApps |-> f.owner[a]]
       /\ None # e.profile
  <2>1. None # e.profile
    BY <1>3, Constants
  <2> QED BY <1>4, <2>1 DEF ReachedStores
<1>12. e.created = FALSE => st.profiles = f.profiles
  <2>1. e.created = FALSE => f.profiles \cup {e.profile} = f.profiles
    BY <1>3
  <2> QED BY <1>4, <2>1
<1>13. CASE b.owner = [a \in DrsApps |-> e.profile]
  <2>1. r.owner = st.owner
    BY <1>6, <1>11, <1>13
  <2>3. CASE e.created = FALSE /\ st.owner = f.owner
    <3>1. r = Unbound(f)
      BY <1>6, <1>7, <1>10, <1>12, <2>1, <2>3
    <3> QED BY <1>2, <3>1 DEF Reach
  <2>4. CASE st.profiles = f.profiles \cup {e.profile} /\ st.owner = [a \in DrsApps |-> e.profile]
    <3>1. r = Applied(f)
      BY <1>6, <1>7, <1>9, <2>1, <2>4
    <3> QED BY <1>2, <3>1 DEF Reach
  <2>5. e.created = TRUE => st # f
    BY <1>3, <1>8
  <2> QED BY <1>3, <1>4, <2>3, <2>4, <2>5
<1>14. CASE b.owner = f.owner /\ e.created = FALSE
  <2>1. \A a \in DrsApps : (IF b.owner[a] = None THEN None ELSE st.owner[a]) = f.owner[a]
    BY <1>4, <1>9, <1>14
  <2>2. r.owner = f.owner
    BY <1>6, <1>11, <2>1
  <2>3. r = Unbound(f)
    BY <1>6, <1>7, <1>10, <1>12, <1>14, <2>2
  <2> QED BY <1>2, <2>3 DEF Reach
<1> QED BY <1>5, <1>13, <1>14

-----------------------------------------------------------------------------
(* The NVIDIA profile: the steps of the row and of its restore. *)

LEMMA DrInitInv == DrInit => DrInv
<1> SUFFICES ASSUME NEW store \in Stores, DrStart(store) PROVE DrInv
  BY DEF DrInit
<1>1. store \in ReachedStores
  BY DEF Stores, ReachedStores
<1>2. /\ drSaved = store /\ drFirst = store /\ drBackup = <<>> /\ drLeft = <<>>
      /\ drAt = 0 /\ drPc = "idle" /\ drForeign = FALSE /\ drOvertaken = FALSE
  BY DEF DrStart
<1>3. DrShape
  <2>1. drBackup \in Seq(DrsEntries) /\ drLeft \in Seq(DrsEntries) /\ drAt \in 0..Len(drBackup)
    BY <1>2
  <2> QED BY <1>1, <1>2, <2>1 DEF DrShape
<1>4. DrUndisturbed
  BY <1>2 DEF DrUndisturbed, Reach
<1> QED BY <1>3, <1>4 DEF DrInv

(* with_session's end, with the entries that remain. *)
LEMMA DrEndInv ==
  ASSUME DrInv, NEW backup \in Seq(DrsEntries), DrEnd(backup),
         ~drForeign /\ ~drOvertaken =>
           /\ backup = <<>> => drSaved = drFirst
           /\ backup # <<>> =>
                /\ drBackup # <<>>
                /\ capture_application_originals(drFirst, find_existing_profile(drFirst))
           /\ \A i \in 1..Len(backup) : backup[i] \in ReachEntries(drFirst)
  PROVE  DrInv'
<1>1. /\ drPc' = "idle" /\ drBackup' = backup /\ drLeft' = <<>> /\ drAt' = 0
      /\ drSaved' = drSaved /\ drFirst' = drFirst /\ drForeign' = drForeign
      /\ drOvertaken' = (drOvertaken \/ (backup # <<>> /\ backup[1] # drBackup[1]))
  BY DEF DrEnd
<1>2. DrShape'
  BY <1>1 DEF DrInv, DrShape
<1>3. ASSUME ~drForeign', ~drOvertaken' PROVE DrUndisturbed'
  <2>1. /\ ~drForeign /\ ~drOvertaken /\ (backup = <<>> \/ backup[1] = drBackup[1])
    BY <1>1, <1>3
  <2> QED BY <1>1, <2>1 DEF DrInv, DrUndisturbed
<1> QED BY <1>2, <1>3 DEF DrInv

(* An operation that ends before it saves leaves everything in place. *)
LEMMA DrKeepInv ==
  ASSUME DrInv, DrEnd(drBackup)
  PROVE  DrInv'
<1>1. drBackup \in Seq(DrsEntries)
  BY DEF DrInv, DrShape
<1>2. ~drForeign /\ ~drOvertaken =>
        /\ drBackup = <<>> => drSaved = drFirst
        /\ drBackup # <<>> =>
             /\ drBackup # <<>>
             /\ capture_application_originals(drFirst, find_existing_profile(drFirst))
        /\ \A i \in 1..Len(drBackup) : drBackup[i] \in ReachEntries(drFirst)
  BY DEF DrInv, DrUndisturbed
<1> QED BY <1>1, <1>2, DrEndInv

LEMMA DrCaptureInv ==
  ASSUME DrInv, capture_drs_backup
  PROVE  DrInv'
<1>1. /\ drPc = "idle" /\ drPc' = "captured" /\ drCaptured' = <<capture_cs2_backup(drSaved)>>
      /\ drFirst' = IF drBackup = <<>> THEN drSaved ELSE drFirst
      /\ drForeign' = (drForeign /\ drBackup # <<>>)
      /\ drOvertaken' = (drOvertaken /\ drBackup # <<>>)
      /\ UNCHANGED <<drSaved, drBackup, drAt, drLeft>>
      /\ capture_application_originals(drSaved, find_existing_profile(drSaved))
  BY DEF capture_drs_backup
<1>2. capture_cs2_backup(drSaved) \in DrsEntries
  BY Capture DEF DrInv, DrShape
<1>3. DrShape'
  BY <1>1, <1>2 DEF DrInv, DrShape
<1>4. CASE drBackup = <<>>
  <2>1. drFirst' = drSaved /\ drSaved' = drSaved /\ drBackup' = <<>>
    BY <1>1, <1>4
  <2>2. DrUndisturbed'
    BY <1>1, <2>1 DEF DrUndisturbed, Reach
  <2> QED BY <1>3, <2>2 DEF DrInv
<1>5. CASE drBackup # <<>>
  <2>1. drFirst' = drFirst /\ (drForeign' <=> drForeign) /\ (drOvertaken' <=> drOvertaken)
    BY <1>1, <1>5
  <2>2. ASSUME ~drForeign, ~drOvertaken PROVE DrUndisturbed'
    BY <1>1, <1>5, <2>1, <2>2 DEF DrInv, DrUndisturbed
  <2> QED BY <1>3, <2>1, <2>2 DEF DrInv
<1> QED BY <1>4, <1>5

LEMMA DrJournalInv ==
  ASSUME DrInv, DrJournal
  PROVE  DrInv'
<1>1. /\ drPc = "captured" /\ drPc' = "journaled" /\ drBackup' = drBackup \o drCaptured
      /\ UNCHANGED <<drSaved, drCaptured, drAt, drLeft, drFirst, drForeign, drOvertaken>>
  BY DEF DrJournal
<1>2. PICK b \in DrsEntries : drCaptured = <<b>>
  BY <1>1 DEF DrInv, DrShape
<1>3. /\ drBackup' \in Seq(DrsEntries) /\ Len(drBackup') = Len(drBackup) + 1
      /\ \A i \in 1..Len(drBackup) : drBackup'[i] = drBackup[i]
      /\ drBackup'[Len(drBackup) + 1] = b
      /\ Len(drBackup) \in Nat /\ (Len(drBackup) = 0 <=> drBackup = <<>>)
  BY <1>1, <1>2 DEF DrInv, DrShape
<1>4. DrShape'
  <2>1. drAt \in 0..Len(drBackup')
    BY <1>3 DEF DrInv, DrShape
  <2> QED BY <1>1, <1>3, <2>1 DEF DrInv, DrShape
<1>5. ASSUME ~drForeign, ~drOvertaken PROVE DrUndisturbed'
  <2>1. DrUndisturbed
    BY <1>5 DEF DrInv
  <2>2. b = capture_cs2_backup(drSaved) /\ drSaved \in Reach(drFirst)
    BY <1>1, <1>2, <2>1 DEF DrUndisturbed
  <2>3. b \in ReachEntries(drFirst)
    BY <2>2 DEF ReachEntries
  <2>4. drBackup'[1] = capture_cs2_backup(drFirst)
    <3>1. CASE drBackup = <<>>
      BY <1>3, <2>1, <2>2, <3>1 DEF DrUndisturbed
    <3>2. CASE drBackup # <<>>
      BY <1>3, <2>1, <3>2 DEF DrUndisturbed
    <3> QED BY <3>1, <3>2
  <2>5. \A i \in 1..Len(drBackup') : drBackup'[i] \in ReachEntries(drFirst)
    <3>1. ASSUME NEW i \in 1..Len(drBackup') PROVE drBackup'[i] \in ReachEntries(drFirst)
      <4>1. i \in 1..Len(drBackup) \/ i = Len(drBackup) + 1
        BY <1>3
      <4> QED BY <1>3, <2>1, <2>3, <4>1 DEF DrUndisturbed
    <3> QED BY <3>1
  <2>6. drBackup' # <<>>
    BY <1>3
  <2> QED BY <1>1, <2>1, <2>4, <2>5, <2>6 DEF DrUndisturbed
<1> QED BY <1>1, <1>4, <1>5 DEF DrInv

(* What is applied to a store of the suite is the suite's store. *)
LEMMA ApplyReach ==
  ASSUME NEW f \in ReachedStores, capture_application_originals(f, find_existing_profile(f)),
         NEW st \in Reach(f)
  PROVE  apply_cs2_profile(st, capture_cs2_backup(st)) = Applied(f)
<1>1. PICK e : e = capture_cs2_backup(f)
  OBVIOUS
<1>2. /\ e.profile \in DrsProfiles
      /\ \/ e.created = TRUE /\ f.profiles = {}
         \/ e.created = FALSE /\ e.profile \in f.profiles
  BY <1>1, Capture DEF DrsEntries
<1>3. /\ ~e.created => \A a \in DrsApps : f.owner[a] \in {e.profile, None}
      /\ Applied(f).profiles = f.profiles \cup {e.profile}
      /\ Applied(f).owner = [a \in DrsApps |-> e.profile]
      /\ Applied(f).value = [f.value EXCEPT ![e.profile] = CS2_SETTINGS]
      /\ Applied(f) = [profiles |-> Applied(f).profiles, owner |-> Applied(f).owner,
                       value |-> Applied(f).value]
  BY <1>1, AppliedParts
<1>4. CASE st = f
  BY <1>4 DEF Applied
<1>5. CASE st = Applied(f)
  <2>1. capture_cs2_backup(st) =
          [profile |-> e.profile, created |-> FALSE, owner |-> [a \in DrsApps |-> e.profile],
           settings |-> CS2_SETTINGS]
    BY <1>1, <1>5, AppliedEntry
  <2>2. apply_cs2_profile(st, capture_cs2_backup(st)) =
          [profiles |-> st.profiles \cup {e.profile},
           owner |-> [a \in DrsApps |-> IF [x \in DrsApps |-> e.profile][a] = None
                                        THEN e.profile ELSE st.owner[a]],
           value |-> [st.value EXCEPT ![e.profile] = CS2_SETTINGS]]
    BY <2>1 DEF apply_cs2_profile
  <2>3. st.profiles \cup {e.profile} = Applied(f).profiles
    BY <1>3, <1>5
  <2>4. [a \in DrsApps |-> IF [x \in DrsApps |-> e.profile][a] = None THEN e.profile
                           ELSE st.owner[a]] = Applied(f).owner
    BY <1>3, <1>5
  <2>5. [st.value EXCEPT ![e.profile] = CS2_SETTINGS] = Applied(f).value
    BY <1>3, <1>5, OneProfile
  <2> QED BY <1>3, <2>2, <2>3, <2>4, <2>5
<1>6. CASE st = Unbound(f) /\ e.created = FALSE
  <2>1. capture_cs2_backup(st) =
          [profile |-> e.profile, created |-> FALSE, owner |-> f.owner, settings |-> CS2_SETTINGS]
    BY <1>1, <1>6, UnboundEntry
  <2>2. /\ st.profiles = f.profiles /\ st.owner = f.owner
        /\ st.value = [f.value EXCEPT ![e.profile] = CS2_SETTINGS]
    BY <1>1, <1>6, UnboundParts
  <2>3. apply_cs2_profile(st, capture_cs2_backup(st)) =
          [profiles |-> st.profiles \cup {e.profile},
           owner |-> [a \in DrsApps |-> IF f.owner[a] = None THEN e.profile ELSE st.owner[a]],
           value |-> [st.value EXCEPT ![e.profile] = CS2_SETTINGS]]
    BY <2>1 DEF apply_cs2_profile
  <2>4. [a \in DrsApps |-> IF f.owner[a] = None THEN e.profile ELSE st.owner[a]]
          = Applied(f).owner
    BY <1>3, <1>6, <2>2
  <2>5. [st.value EXCEPT ![e.profile] = CS2_SETTINGS] = Applied(f).value
    BY <1>3, <2>2, OneProfile
  <2> QED BY <1>3, <2>2, <2>3, <2>4, <2>5
<1>7. e.created # FALSE => Unbound(f) = Applied(f)
  BY <1>1, <1>2 DEF Unbound
<1> QED BY <1>4, <1>5, <1>6, <1>7 DEF Reach

LEMMA DrApplyInv ==
  ASSUME DrInv, apply_drs_backup
  PROVE  DrInv'
<1>1. CASE DrEnd(drBackup)
  BY <1>1, DrKeepInv
<1>2. CASE ~DrEnd(drBackup)
  <2>1. /\ drPc = "journaled" /\ drPc' = "applying"
        /\ drSession' = <<apply_cs2_profile(drSaved, drCaptured[1])>>
        /\ UNCHANGED <<drSaved, drBackup, drCaptured, drAt, drLeft, drFirst, drForeign, drOvertaken>>
    BY <1>2 DEF apply_drs_backup
  <2>2. PICK b \in DrsEntries : drCaptured = <<b>>
    BY <2>1 DEF DrInv, DrShape
  <2>3. drSession' = <<apply_cs2_profile(drSaved, b)>>
    BY <2>1, <2>2
  <2>4. apply_cs2_profile(drSaved, b) \in ReachedStores
    BY AppliedReached DEF DrInv, DrShape
  <2>5. DrShape'
    BY <2>1, <2>3, <2>4 DEF DrInv, DrShape
  <2>6. ASSUME ~drForeign, ~drOvertaken PROVE DrUndisturbed'
    <3>1. DrUndisturbed /\ drFirst \in ReachedStores
      BY <2>6 DEF DrInv, DrShape
    <3>2. b = capture_cs2_backup(drSaved)
      BY <2>1, <2>2, <3>1 DEF DrUndisturbed
    <3>3. drSession' = <<Applied(drFirst)>>
      BY <2>1, <2>3, <3>1, <3>2, ApplyReach DEF DrUndisturbed
    <3> QED BY <2>1, <3>1, <3>3 DEF DrUndisturbed
  <2> QED BY <2>1, <2>5, <2>6 DEF DrInv
<1> QED BY <1>1, <1>2

LEMMA DrSaveInv ==
  ASSUME DrInv, DrSave
  PROVE  DrInv'
<1>1. CASE DrEnd(drBackup)
  BY <1>1, DrKeepInv
<1>2. CASE ~DrEnd(drBackup)
  <2>1. /\ drPc = "applying" /\ drPc' = "verify" /\ drSaved' = drSession[1]
        /\ UNCHANGED <<drBackup, drCaptured, drAt, drLeft, drFirst, drForeign, drOvertaken>>
    BY <1>2 DEF DrSave
  <2>2. PICK st \in ReachedStores : drSession = <<st>>
    BY <2>1 DEF DrInv, DrShape
  <2>3. drSaved' = st
    BY <2>1, <2>2
  <2>4. DrShape'
    BY <2>1, <2>3 DEF DrInv, DrShape
  <2>5. ASSUME ~drForeign, ~drOvertaken PROVE DrUndisturbed'
    <3>1. DrUndisturbed
      BY <2>5 DEF DrInv
    <3>2. drSaved' = Applied(drFirst)
      BY <2>1, <2>2, <2>3, <3>1 DEF DrUndisturbed
    <3> QED BY <2>1, <3>1, <3>2 DEF DrUndisturbed, Reach
  <2> QED BY <2>1, <2>4, <2>5 DEF DrInv
<1> QED BY <1>1, <1>2

LEMMA DrRestoreInv ==
  ASSUME DrInv, DrRestore
  PROVE  DrInv'
<1>1. /\ drPc = "idle" /\ drBackup # <<>> /\ drPc' = "restore" /\ drAt' = Len(drBackup)
      /\ UNCHANGED <<drSaved, drBackup, drLeft, drFirst, drForeign, drOvertaken>>
  BY DEF DrRestore
<1>2. Len(drBackup) \in Nat /\ Len(drBackup) # 0
  BY <1>1 DEF DrInv, DrShape
<1>3. DrShape'
  BY <1>1, <1>2 DEF DrInv, DrShape
<1>4. ASSUME ~drForeign, ~drOvertaken PROVE DrUndisturbed'
  <2>1. DrUndisturbed
    BY <1>4 DEF DrInv
  <2>2. drLeft = <<>>
    BY <1>1 DEF DrInv, DrShape
  <2> QED BY <1>1, <1>2, <2>1, <2>2 DEF DrUndisturbed
<1> QED BY <1>1, <1>3, <1>4 DEF DrInv

(* An entry that is retained, whatever of it was saved before it failed. *)
LEMMA DrRetainInv ==
  ASSUME DrInv, DrRetain, drPc \in {"restore", "restoring"}, drAt # 0,
         drSaved' \in ReachedStores,
         ~drForeign /\ ~drOvertaken => drSaved' \in Reach(drFirst),
         UNCHANGED <<drBackup, drCaptured, drFirst, drForeign, drOvertaken>>
  PROVE  DrInv'
<1>1. PICK b : b = drBackup[drAt]
  OBVIOUS
<1>2. drPc' = "restore" /\ drAt' = drAt - 1 /\ drLeft' = <<b>> \o drLeft
  BY <1>1 DEF DrRetain
<1>3. /\ drAt \in 1..Len(drBackup) /\ Len(drBackup) \in Nat /\ b \in DrsEntries
      /\ drAt' \in 0..Len(drBackup) /\ drLeft \in Seq(DrsEntries)
  BY <1>1, <1>2 DEF DrInv, DrShape
<1>4. /\ drLeft' \in Seq(DrsEntries) /\ drLeft' # <<>>
      /\ Len(drLeft') = Len(drLeft) + 1
      /\ \A i \in 1..Len(drLeft) + 1 : drLeft'[i] = IF i = 1 THEN b ELSE drLeft[i - 1]
  BY <1>2, <1>3
<1>5. DrShape'
  BY <1>2, <1>3, <1>4 DEF DrInv, DrShape
<1>6. ASSUME ~drForeign, ~drOvertaken PROVE DrUndisturbed'
  <2>1. DrUndisturbed
    BY <1>6 DEF DrInv
  <2>2. /\ drSaved' \in Reach(drFirst) /\ b \in ReachEntries(drFirst) /\ drBackup # <<>>
    BY <1>1, <1>3, <1>6, <2>1 DEF DrUndisturbed
  <2>3. ASSUME NEW i \in 1..Len(drLeft') PROVE drLeft'[i] \in ReachEntries(drFirst)
    <3>1. i \in 1..Len(drLeft) + 1 /\ (i # 1 => i - 1 \in 1..Len(drLeft))
      BY <1>3, <1>4
    <3> QED BY <1>4, <2>1, <2>2, <3>1 DEF DrUndisturbed
  <2> QED BY <1>2, <1>4, <2>1, <2>2, <2>3 DEF DrUndisturbed
<1> QED BY <1>5, <1>6 DEF DrInv

(* One entry of the restore, undone in the session or retained. *)
LEMMA DrEntryInv ==
  ASSUME DrInv, restore_drs_entry
  PROVE  DrInv'
<1>1. PICK b : b = drBackup[drAt]
  OBVIOUS
<1>2. /\ drPc = "restore" /\ drAt > 0
      /\ UNCHANGED <<drSaved, drBackup, drCaptured, drFirst, drForeign, drOvertaken>>
  BY DEF restore_drs_entry
<1>3. /\ drAt \in 1..Len(drBackup) /\ Len(drBackup) \in Nat /\ b \in DrsEntries
      /\ drSaved \in ReachedStores /\ drFirst \in ReachedStores
  BY <1>1, <1>2 DEF DrInv, DrShape
<1>4. CASE DrRetain
  <2>1. ~drForeign /\ ~drOvertaken => drSaved' \in Reach(drFirst)
    BY <1>2 DEF DrInv, DrUndisturbed
  <2>2. drAt # 0 /\ drSaved' \in ReachedStores
    BY <1>2, <1>3
  <2> QED BY <1>2, <1>4, <2>1, <2>2, DrRetainInv
<1>5. CASE ~DrRetain
  <2>1. /\ EntryRestorable(drSaved, b) /\ drPc' = "restoring"
        /\ drSession' = <<restore_cs2_profile(drSaved, b)>> /\ UNCHANGED <<drAt, drLeft>>
    BY <1>1, <1>5 DEF restore_drs_entry, EntryRestorable
  <2>2. restore_cs2_profile(drSaved, b) \in ReachedStores
    BY <1>3, <2>1, RestoredReached DEF EntryRestorable
  <2>3. DrShape'
    BY <1>2, <1>3, <2>1, <2>2 DEF DrInv, DrShape
  <2>4. ASSUME ~drForeign, ~drOvertaken PROVE DrUndisturbed'
    <3>1. DrUndisturbed
      BY <2>4 DEF DrInv
    <3>2. /\ capture_application_originals(drFirst, find_existing_profile(drFirst))
          /\ drSaved \in Reach(drFirst) /\ b \in ReachEntries(drFirst)
          /\ drAt = 1 => b = capture_cs2_backup(drFirst)
          /\ drBackup # <<>>
      BY <1>1, <1>2, <1>3, <3>1 DEF DrUndisturbed
    <3>3. drSession'[1] = restore_cs2_profile(drSaved, b)
      BY <2>1
    <3>4. CASE b = capture_cs2_backup(drFirst)
      <4>1. drSession'[1] = drFirst
        BY <1>3, <2>1, <3>2, <3>3, <3>4, RestoreOldest
      <4> QED BY <1>2, <1>3, <2>1, <3>1, <3>2, <4>1 DEF DrUndisturbed, Reach
    <3>5. CASE b # capture_cs2_backup(drFirst)
      <4>1. drSession'[1] \in Reach(drFirst) /\ drAt # 1
        BY <1>3, <2>1, <3>2, <3>3, <3>5, RestoreNewer
      <4> QED BY <1>2, <1>3, <2>1, <3>1, <3>2, <4>1 DEF DrUndisturbed
    <3> QED BY <3>4, <3>5
  <2> QED BY <1>2, <2>3, <2>4 DEF DrInv
<1> QED BY <1>4, <1>5

LEMMA DrRestoreSaveInv ==
  ASSUME DrInv, DrRestoreSave
  PROVE  DrInv'
<1>1. /\ drPc = "restoring" /\ drSaved' = drSession[1] /\ drPc' = "restore" /\ drAt' = drAt - 1
      /\ UNCHANGED <<drBackup, drCaptured, drLeft, drFirst, drForeign, drOvertaken>>
  BY DEF DrRestoreSave
<1>2. /\ drAt \in 1..Len(drBackup) /\ Len(drBackup) \in Nat
      /\ drSaved' \in ReachedStores /\ drAt' \in 0..Len(drBackup)
  BY <1>1 DEF DrInv, DrShape
<1>3. DrShape'
  BY <1>1, <1>2 DEF DrInv, DrShape
<1>4. ASSUME ~drForeign, ~drOvertaken PROVE DrUndisturbed'
  <2>1. DrUndisturbed /\ drBackup # <<>>
    BY <1>1, <1>4 DEF DrInv, DrUndisturbed
  <2>2. drSaved' \in Reach(drFirst) /\ (drAt' = 0 => drSaved' = drFirst)
    BY <1>1, <1>2, <2>1 DEF DrUndisturbed
  <2> QED BY <1>1, <2>1, <2>2 DEF DrUndisturbed
<1> QED BY <1>1, <1>3, <1>4 DEF DrInv

LEMMA DrRestoreSaveFailsInv ==
  ASSUME DrInv, DrRestoreSaveFails
  PROVE  DrInv'
<1>1. /\ drPc = "restoring" /\ drSaved' \in {drSaved, drSession[1]} /\ DrRetain
      /\ UNCHANGED <<drBackup, drCaptured, drFirst, drForeign, drOvertaken>>
  BY DEF DrRestoreSaveFails
<1>2. drAt # 0 /\ drSaved' \in ReachedStores
  BY <1>1 DEF DrInv, DrShape
<1>3. ~drForeign /\ ~drOvertaken => drSaved' \in Reach(drFirst)
  BY <1>1 DEF DrInv, DrUndisturbed
<1> QED BY <1>1, <1>2, <1>3, DrRetainInv

LEMMA DrCommitInv ==
  ASSUME DrInv, DrCommit
  PROVE  DrInv'
<1>1. drPc = "restore" /\ drAt = 0 /\ DrEnd(drLeft) /\ drLeft \in Seq(DrsEntries)
  BY DEF DrCommit, DrInv, DrShape
<1>2. ~drForeign /\ ~drOvertaken =>
        /\ drLeft = <<>> => drSaved = drFirst
        /\ drLeft # <<>> =>
             /\ drBackup # <<>>
             /\ capture_application_originals(drFirst, find_existing_profile(drFirst))
        /\ \A i \in 1..Len(drLeft) : drLeft[i] \in ReachEntries(drFirst)
  BY <1>1 DEF DrInv, DrUndisturbed
<1> QED BY <1>1, <1>2, DrEndInv

LEMMA DrPanelInv ==
  ASSUME DrInv, DrPanel
  PROVE  DrInv'
<1>1. /\ drSaved' \in Stores /\ drForeign' = TRUE
      /\ UNCHANGED <<drSession, drBackup, drCaptured, drAt, drLeft, drPc, drFirst, drOvertaken>>
  BY DEF DrPanel
<1>2. drSaved' \in ReachedStores
  BY <1>1 DEF Stores, ReachedStores
<1> QED BY <1>1, <1>2 DEF DrInv, DrShape

(* DrInv holds in every state the row, its restores, their interruptions,  *)
(* the failures of the driver's calls and the driver's panel can reach     *)
(* (driver/drs/mod.rs, storage/drs_recovery.rs): the stores and entries    *)
(* keep their shape, and until the user or a restore that kept a newer     *)
(* entry disturbs it, the oldest entry is the capture of the first store.  *)
THEOREM DrInvariant == DrSpec => []DrInv
<1>1. DrInit => DrInv
  BY DrInitInv
<1>2. ASSUME DrInv, [DrNext]_drVars PROVE DrInv'
  <2>1. CASE UNCHANGED drVars
    <3>1. DrShape'
      BY <1>2, <2>1 DEF drVars, DrInv, DrShape
    <3>2. DrUndisturbed => DrUndisturbed'
      BY <2>1 DEF drVars, DrUndisturbed
    <3> QED BY <1>2, <2>1, <3>1, <3>2 DEF drVars, DrInv
  <2>2. CASE verify_drs_backup \/ DrCrash
    BY <1>2, <2>2, DrKeepInv DEF verify_drs_backup, DrCrash
  <2> QED
    BY <1>2, <2>1, <2>2, DrCaptureInv, DrJournalInv, DrApplyInv, DrSaveInv, DrRestoreInv,
       DrEntryInv, DrRestoreSaveInv, DrRestoreSaveFailsInv, DrCommitInv, DrPanelInv DEF DrNext
<1>3. DrInv /\ [DrNext]_drVars => DrInv'
  BY <1>2
<1> QED BY <1>1, <1>3, PTL DEF DrSpec

(* However many entries repeated, interrupted and partly failed runs and   *)
(* restores have journaled, once none is left the driver's profiles are    *)
(* the ones of the first capture, unless the user saved others meanwhile   *)
(* or a newer entry was kept when the oldest one went (restore_matching).  *)
THEOREM DrsRestoredExactly == DrSpec => []DrsRestoreExact
<1>1. DrInv => DrsRestoreExact
  BY DEF DrInv, DrUndisturbed, DrsRestoreExact
<1> QED BY <1>1, DrInvariant, PTL

-----------------------------------------------------------------------------
(* The managed CFG files: targets and entries. *)

LEMMA WriteSets ==
  /\ for_request \in Seq(CfgTargets) \ {<<>>}
  /\ \A assets \in (SUBSET CfgAssets) \ {{}} :
       for_optional_assets(assets) \in Seq(CfgTargets) \ {<<>>}
<1>1. IsFiniteSet(CfgAssets) /\ LegacyAssets \in SUBSET CfgAssets
  BY GameConfigAssumption
<1>2. IsFiniteSet(LegacyAssets)
  BY <1>1, FS_Subset
<1>3. SetToSeq(LegacyAssets) \in Seq(CfgTargets)
  <2>1. SetToSeq(LegacyAssets) \in Seq(LegacyAssets)
    BY <1>2, SetToSeqShape
  <2>2. LegacyAssets \subseteq CfgTargets
    BY <1>1 DEF CfgTargets
  <2> QED BY <2>1, <2>2
<1>4. <<Optimization>> \in Seq(CfgTargets) /\ Len(<<Optimization>>) = 1
  BY DEF CfgTargets
<1>5. for_request \in Seq(CfgTargets) /\ Len(for_request) # 0
  BY <1>3, <1>4 DEF for_request
<1>6. ASSUME NEW assets \in (SUBSET CfgAssets) \ {{}}
      PROVE  for_optional_assets(assets) \in Seq(CfgTargets) \ {<<>>}
  <2>1. IsFiniteSet(assets)
    BY <1>1, FS_Subset
  <2>2. SetToSeq(assets) \in Seq(assets) /\ SetToSeq(assets) # <<>>
    BY <2>1, SetToSeqShape
  <2>3. assets \subseteq CfgTargets
    BY DEF CfgTargets
  <2> QED BY <2>2, <2>3 DEF for_optional_assets
<1> QED BY <1>5, <1>6

LEMMA EntryFields ==
  ASSUME NEW e \in CfgEntries
  PROVE  /\ e.step \in CfgSteps /\ e.install \in CfgInstalls
         /\ e.targets \in Seq(CfgTargets) /\ e.targets # <<>> /\ Len(e.targets) \in Nat \ {0}
         /\ e.bytes \in Seq(CfgBytes) /\ Len(e.bytes) = Len(e.targets)
         /\ \A k \in 1..Len(e.targets) :
              /\ e.targets[k] \in CfgTargets /\ e.bytes[k] \in CfgBytes
              /\ e.targets[k] \in ToSet(e.targets)
<1>1. /\ e.step \in CfgSteps /\ e.install \in CfgInstalls
      /\ e.targets \in Seq(CfgTargets) /\ e.targets # <<>>
      /\ e.bytes \in Seq(CfgBytes) /\ Len(e.bytes) = Len(e.targets)
  BY DEF CfgEntries
<1>2. Len(e.targets) \in Nat \ {0}
  BY <1>1
<1> QED BY <1>1, <1>2 DEF ToSet

LEMMA CapturedEntry ==
  ASSUME CfgShape, NEW step \in CfgSteps, NEW i \in CfgInstalls,
         NEW targets \in Seq(CfgTargets) \ {<<>>}
  PROVE  /\ capture_targets(step, i, targets) \in CfgEntries
         /\ \A x : CapturedDeployed(capture_targets(step, i, targets), x) =>
              /\ x \in CfgInstalls \X CfgTargets
              /\ read_file(x[1], x[2]) \in SuiteBytes
<1> DEFINE bytes == [k \in DOMAIN targets |-> read_file(i, targets[k])]
<1>1. DOMAIN targets = 1..Len(targets) /\ Len(targets) \in Nat
  OBVIOUS
<1>2. \A k \in DOMAIN targets : targets[k] \in CfgTargets /\ read_file(i, targets[k]) \in CfgBytes
  BY DEF CfgShape, read_file
<1>3. bytes \in Seq(CfgBytes) /\ Len(bytes) = Len(targets)
  BY <1>1, <1>2
<1>4. capture_targets(step, i, targets) =
        [step |-> step, install |-> i, targets |-> targets, bytes |-> bytes]
  BY DEF capture_targets
<1>5. capture_targets(step, i, targets) \in CfgEntries
  <2> HIDE DEF bytes
  <2> QED BY <1>3, <1>4 DEF CfgEntries
<1>6. ASSUME NEW x, CapturedDeployed(capture_targets(step, i, targets), x)
      PROVE  /\ x \in CfgInstalls \X CfgTargets
             /\ read_file(x[1], x[2]) \in SuiteBytes
  <2>1. PICK k \in DOMAIN targets : x = <<i, targets[k]>> /\ bytes[k] \in SuiteBytes
    <3> HIDE DEF bytes
    <3> QED BY <1>4, <1>6 DEF CapturedDeployed
  <2>2. x[1] = i /\ x[2] = targets[k]
    BY <2>1
  <2> QED BY <1>2, <2>1, <2>2
<1> QED BY <1>5, <1>6

-----------------------------------------------------------------------------
(* One lemma for every action. *)

LEMMA CfgInitInv == CfgInit => CfgInv
<1> SUFFICES ASSUME NEW u \in UserBytes \cup {NoFile}, NEW i \in CfgInstalls, CfgStart(u, i)
             PROVE  CfgInv
  BY DEF CfgInit
<1>1. u \in CfgBytes /\ u \notin SuiteBytes
  BY WhoseBytesAssumption DEF CfgBytes
<1>2. CfgShape
  BY <1>1, GameConfigAssumption DEF CfgStart, CfgShape
<1>3. \A x \in CfgInstalls \X CfgTargets : read_file(x[1], x[2]) = u
  BY DEF CfgStart, read_file
<1>4. DeployedFilesRecoverable
  BY <1>1, <1>3 DEF DeployedFilesRecoverable
<1>5. Grounded
  <2>1. DOMAIN cfgBackup = {}
    BY DEF CfgStart
  <2> QED BY <2>1 DEF Grounded
<1> QED BY <1>2, <1>4, <1>5 DEF CfgInv, CfgStart, RunJournaled, RestoreProgress

LEMMA CfgBeginInv ==
  ASSUME CfgInv, NEW step \in CfgSteps, NEW targets \in Seq(CfgTargets) \ {<<>>},
         CfgBegin(step, targets)
  PROVE  CfgInv'
<1>1. PICK i \in discover_cs2_install :
        cfgRun' = <<[entry |-> capture_targets(step, i, targets), minute |-> cfgMinute,
                     left |-> targets]>>
  BY DEF CfgBegin
<1>2. i \in CfgInstalls
  BY DEF discover_cs2_install, CfgInv, CfgShape
<1> DEFINE e == capture_targets(step, i, targets)
<1>3. e \in CfgEntries /\ \A x : CapturedDeployed(e, x) =>
                            x \in CfgInstalls \X CfgTargets /\ read_file(x[1], x[2]) \in SuiteBytes
  BY <1>2, CapturedEntry DEF CfgInv
<1>4. e.targets = targets
  BY DEF capture_targets
<1> HIDE DEF e
<1>5. cfgRun' = <<[entry |-> e, minute |-> cfgMinute, left |-> targets]>>
  BY <1>1 DEF e
<1>6. CfgShape'
  <2>1. [entry |-> e, minute |-> cfgMinute, left |-> targets] \in CfgRuns
    BY <1>3 DEF CfgRuns, CfgInv, CfgShape
  <2>2. \A k \in DOMAIN targets : targets[k] \in ToSet(e.targets)
    BY <1>4 DEF ToSet
  <2>3. cfgRun'[1] = [entry |-> e, minute |-> cfgMinute, left |-> targets]
    BY <1>5
  <2> QED BY <1>5, <2>1, <2>2, <2>3 DEF CfgBegin, CfgInv, CfgShape
<1>7. RunJournaled'
  <2>1. cfgPc' = "journal" /\ cfgBackup' = cfgBackup /\ cfgOvertaken' = cfgOvertaken
        /\ cfgRun'[1].entry = e
    BY <1>5 DEF CfgBegin
  <2>2. \A x \in (CfgInstalls \X CfgTargets) \ cfgOvertaken :
          CapturedDeployed(e, x) => JournaledIn(cfgBackup, x)
    BY <1>3 DEF CfgInv, DeployedFilesRecoverable
  <2> QED BY <2>1, <2>2 DEF RunJournaled
<1>8. UNCHANGED <<cfgFiles, cfgBackup, cfgOvertaken>> /\ cfgPc' # "restore"
  BY DEF CfgBegin
<1>9. Grounded' /\ DeployedFilesRecoverable' /\ RestoreProgress'
  BY <1>8 DEF CfgInv, Grounded, DeployedFilesRecoverable, RestoreProgress, read_file
<1> QED BY <1>6, <1>7, <1>9 DEF CfgInv

LEMMA CfgJournalInv == ASSUME CfgInv, CfgJournal PROVE CfgInv'
<1> DEFINE r == cfgRun[1]
           e == r.entry
<1>1. /\ cfgPc = "journal" /\ cfgPc' = "reobserve" /\ cfgRun' = cfgRun
      /\ UNCHANGED <<cfgFiles, cfgInstall, cfgMinute, cfgEvents, cfgOvertaken>>
      /\ cfgBackup' = cfg_push_first_value(cfgBackup, e)
  BY DEF CfgJournal, CfgStep
<1>2. /\ cfgRun = <<r>> /\ r \in CfgRuns /\ r.left # <<>>
      /\ \A k \in DOMAIN r.left : r.left[k] \in ToSet(e.targets)
  BY <1>1 DEF CfgInv, CfgShape
<1>3. e \in CfgEntries
  BY <1>2 DEF CfgRuns
<1>4. /\ cfgBackup \in Seq(CfgEntries) /\ Len(cfgBackup) \in Nat
      /\ DOMAIN cfgBackup = 1..Len(cfgBackup)
  BY DEF CfgInv, CfgShape
<1>5. \/ /\ cfgBackup' = cfgBackup
         /\ \E n \in DOMAIN cfgBackup : cfg_dedupe_identity(cfgBackup[n]) = cfg_dedupe_identity(e)
      \/ cfgBackup' = Append(cfgBackup, e)
  BY <1>1 DEF cfg_push_first_value
<1> HIDE DEF r, e
<1>6. /\ cfgBackup' \in Seq(CfgEntries) /\ Len(cfgBackup') \in {Len(cfgBackup), Len(cfgBackup) + 1}
      /\ DOMAIN cfgBackup' = 1..Len(cfgBackup')
      /\ \A n \in DOMAIN cfgBackup : n \in DOMAIN cfgBackup' /\ cfgBackup'[n] = cfgBackup[n]
      /\ \A n \in DOMAIN cfgBackup' : n \in DOMAIN cfgBackup
           \/ (n = Len(cfgBackup) + 1 /\ cfgBackup'[n] = e)
  BY <1>3, <1>4, <1>5
<1>7. \A x : JournaledIn(cfgBackup, x) => JournaledIn(cfgBackup', x)
  BY <1>6 DEF JournaledIn
<1>8. \A x : Covers(e, x) => JournaledIn(cfgBackup', x)
  <2>1. CASE cfgBackup' = Append(cfgBackup, e)
    <3>1. Len(cfgBackup) + 1 \in DOMAIN cfgBackup' /\ cfgBackup'[Len(cfgBackup) + 1] = e
      BY <1>3, <1>4, <2>1
    <3> QED BY <3>1 DEF JournaledIn
  <2>2. ASSUME cfgBackup' = cfgBackup, NEW n \in DOMAIN cfgBackup,
               cfg_dedupe_identity(cfgBackup[n]) = cfg_dedupe_identity(e)
        PROVE  \A x : Covers(e, x) => JournaledIn(cfgBackup', x)
    <3>1. cfgBackup[n].install = e.install /\ cfgBackup[n].targets = e.targets
      BY <2>2 DEF cfg_dedupe_identity
    <3> QED BY <2>2, <3>1 DEF JournaledIn, Covers
  <2> QED BY <1>5, <2>1, <2>2
<1>9. CfgShape'
  BY <1>1, <1>2, <1>6 DEF CfgInv, CfgShape, r, e
<1>10. RunJournaled'
  <2>1. cfgRun'[1].entry = e
    BY <1>1 DEF r, e
  <2> QED BY <1>1, <1>8, <2>1 DEF RunJournaled
<1>11. Grounded'
  <2> SUFFICES ASSUME NEW n \in DOMAIN cfgBackup',
                      NEW x \in (CfgInstalls \X CfgTargets) \ cfgOvertaken,
                      CapturedDeployed(cfgBackup'[n], x)
               PROVE  \E m \in 1..(n - 1) : Covers(cfgBackup'[m], x)
    BY <1>1 DEF Grounded
  <2>1. CASE n \in DOMAIN cfgBackup
    <3>1. PICK m \in 1..(n - 1) : Covers(cfgBackup[m], x)
      BY <1>6, <2>1 DEF CfgInv, Grounded
    <3>2. m \in DOMAIN cfgBackup
      BY <1>4, <2>1
    <3> QED BY <1>6, <3>1, <3>2
  <2>2. CASE n = Len(cfgBackup) + 1 /\ cfgBackup'[n] = e
    <3>1. JournaledIn(cfgBackup, x)
      BY <1>1, <2>2 DEF CfgInv, RunJournaled, r, e
    <3>2. PICK m \in DOMAIN cfgBackup : Covers(cfgBackup[m], x)
      BY <3>1 DEF JournaledIn
    <3>3. m \in 1..(n - 1)
      BY <1>4, <2>2, <3>2
    <3> QED BY <1>6, <3>2, <3>3
  <2> QED BY <1>6, <2>1, <2>2
<1>12. DeployedFilesRecoverable'
  BY <1>1, <1>7 DEF CfgInv, DeployedFilesRecoverable, read_file
<1>13. RestoreProgress'
  BY <1>1 DEF RestoreProgress
<1> QED BY <1>9, <1>10, <1>11, <1>12, <1>13 DEF CfgInv

(* What an entry, a run and a restore keep of a step that leaves the       *)
(* journal alone.                                                          *)
LEMMA CfgReobserveInv == ASSUME CfgInv, CfgReobserve PROVE CfgInv'
<1>1. /\ cfgPc = "reobserve" /\ (cfgPc' = "idle" \/ (cfgPc' = "write" /\ cfgRun' = cfgRun))
      /\ UNCHANGED <<cfgFiles, cfgInstall, cfgMinute, cfgEvents, cfgOvertaken, cfgBackup>>
  BY DEF CfgReobserve, CfgStep
<1>2. CfgShape'
  BY <1>1 DEF CfgInv, CfgShape
<1>3. Grounded' /\ DeployedFilesRecoverable' /\ RestoreProgress'
  BY <1>1 DEF CfgInv, Grounded, DeployedFilesRecoverable, RestoreProgress, read_file
<1>4. RunJournaled'
  BY <1>1 DEF CfgInv, RunJournaled
<1> QED BY <1>2, <1>3, <1>4 DEF CfgInv

LEMMA FileReplaced ==
  ASSUME CfgShape, NEW i \in CfgInstalls, NEW f \in CfgTargets, NEW u \in CfgBytes,
         cfgFiles' = atomic_replace(i, f, u)
  PROVE  /\ cfgFiles' \in [CfgInstalls -> [CfgTargets -> CfgBytes]]
         /\ \A x \in CfgInstalls \X CfgTargets :
              read_file(x[1], x[2])' = IF x = <<i, f>> THEN u ELSE read_file(x[1], x[2])
<1>1. cfgFiles \in [CfgInstalls -> [CfgTargets -> CfgBytes]]
  BY DEF CfgShape
<1>2. cfgFiles' = [cfgFiles EXCEPT ![i][f] = u]
  BY DEF atomic_replace
<1>3. cfgFiles' \in [CfgInstalls -> [CfgTargets -> CfgBytes]]
  BY <1>1, <1>2
<1>4. ASSUME NEW x \in CfgInstalls \X CfgTargets
      PROVE  cfgFiles'[x[1]][x[2]] = IF x = <<i, f>> THEN u ELSE cfgFiles[x[1]][x[2]]
  <2>1. x[1] \in CfgInstalls /\ x[2] \in CfgTargets /\ x = <<x[1], x[2]>>
    OBVIOUS
  <2> QED BY <1>1, <1>2, <2>1
<1> QED BY <1>3, <1>4 DEF read_file

LEMMA CfgWriteInv == ASSUME CfgInv, CfgWrite PROVE CfgInv'
<1> DEFINE r == cfgRun[1]
           e == r.entry
           f == Head(r.left)
<1>1. /\ cfgPc = "write"
      /\ UNCHANGED <<cfgInstall, cfgMinute, cfgEvents, cfgOvertaken, cfgBackup>>
      /\ \/ cfgPc' = "idle" /\ cfgFiles' = cfgFiles
         \/ /\ cfgFiles' = atomic_replace(e.install, f, Rendered(f, r.minute))
            /\ cfgRun' = <<[r EXCEPT !.left = Tail(@)]>>
            /\ cfgPc' = IF Tail(r.left) = <<>> THEN "verify" ELSE "write"
  BY DEF CfgWrite
<1>2. /\ cfgRun = <<r>> /\ r \in CfgRuns /\ r.left # <<>>
      /\ \A k \in DOMAIN r.left : r.left[k] \in ToSet(e.targets)
  BY <1>1 DEF CfgInv, CfgShape
<1>3. e \in CfgEntries /\ r.left \in Seq(CfgTargets) /\ r.minute \in 0..MaxMinutes
  BY <1>2 DEF CfgRuns
<1>4. \A x \in CfgInstalls \X CfgTargets : Covers(e, x) => JournaledIn(cfgBackup, x)
  BY <1>1 DEF CfgInv, RunJournaled
<1>5. CASE cfgPc' = "idle" /\ cfgFiles' = cfgFiles
  <2>1. CfgShape'
    BY <1>1, <1>5 DEF CfgInv, CfgShape
  <2>2. Grounded' /\ DeployedFilesRecoverable' /\ RestoreProgress' /\ RunJournaled'
    BY <1>1, <1>5
      DEF CfgInv, Grounded, DeployedFilesRecoverable, RestoreProgress, RunJournaled, read_file
  <2> QED BY <2>1, <2>2 DEF CfgInv
<1>6. CASE /\ cfgFiles' = atomic_replace(e.install, f, Rendered(f, r.minute))
           /\ cfgRun' = <<[r EXCEPT !.left = Tail(@)]>>
           /\ cfgPc' = IF Tail(r.left) = <<>> THEN "verify" ELSE "write"
  <2> HIDE DEF r, e, f
  <2>1. f = r.left[1] /\ f \in CfgTargets /\ f \in ToSet(e.targets) /\ e.install \in CfgInstalls
    <3>1. 1 \in DOMAIN r.left /\ f = r.left[1] /\ f \in CfgTargets
      BY <1>2, <1>3 DEF f
    <3> QED BY <1>2, <1>3, <3>1, EntryFields
  <2>2. Rendered(f, r.minute) \in CfgBytes
    BY <1>3, <2>1 DEF CfgBytes, SuiteBytes
  <2>3. /\ cfgFiles' \in [CfgInstalls -> [CfgTargets -> CfgBytes]]
        /\ \A x \in CfgInstalls \X CfgTargets :
             read_file(x[1], x[2])' =
               IF x = <<e.install, f>> THEN Rendered(f, r.minute) ELSE read_file(x[1], x[2])
    BY <1>6, <2>1, <2>2, FileReplaced DEF CfgInv
  <2>4. PICK q : q = [r EXCEPT !.left = Tail(@)]
    OBVIOUS
  <2>5. /\ q \in CfgRuns /\ q.entry = e /\ q.left = Tail(r.left) /\ cfgRun' = <<q>> /\ cfgRun'[1] = q
    <3>1. PICK t \in Seq(CfgTargets) : t = Tail(r.left)
      <4>1. Tail(r.left) \in Seq(CfgTargets)
        BY <1>2, <1>3, HeadTailProperties
      <4> QED BY <4>1
    <3>2. q = [r EXCEPT !.left = t]
      BY <2>4, <3>1
    <3>3. q \in CfgRuns /\ q.entry = e /\ q.left = t
      BY <1>2, <3>2 DEF CfgRuns, e
    <3> QED BY <1>6, <2>4, <3>1, <3>3
  <2>6. \A k \in DOMAIN q.left : q.left[k] \in ToSet(q.entry.targets)
    <3>1. ASSUME NEW k \in DOMAIN q.left PROVE k + 1 \in DOMAIN r.left /\ q.left[k] = r.left[k + 1]
      BY <1>2, <1>3, <2>5, <3>1
    <3> QED BY <1>2, <2>5, <3>1
  <2>7. CfgShape'
    <3>1. cfgPc' \in {"verify", "write"} /\ (cfgPc' # "verify" => q.left # <<>>)
      BY <1>6, <2>5
    <3> QED BY <1>1, <2>3, <2>5, <2>6, <3>1 DEF CfgInv, CfgShape
  <2>8. DeployedFilesRecoverable'
    <3> SUFFICES ASSUME NEW x \in (CfgInstalls \X CfgTargets) \ cfgOvertaken,
                        read_file(x[1], x[2])' \in SuiteBytes
                 PROVE  JournaledIn(cfgBackup, x)
      BY <1>1 DEF DeployedFilesRecoverable
    <3>1. CASE x = <<e.install, f>>
      <4>1. Covers(e, x)
        BY <2>1, <3>1 DEF Covers
      <4> QED BY <1>4, <4>1
    <3>2. CASE x # <<e.install, f>>
      BY <2>3, <3>2 DEF CfgInv, DeployedFilesRecoverable
    <3> QED BY <3>1, <3>2
  <2>9. RunJournaled'
    BY <1>1, <1>4, <1>6, <2>5 DEF RunJournaled
  <2>10. Grounded' /\ RestoreProgress'
    BY <1>1, <1>6 DEF CfgInv, Grounded, RestoreProgress
  <2> QED BY <2>7, <2>8, <2>9, <2>10 DEF CfgInv
<1> QED BY <1>1, <1>5, <1>6

(* Ends of a command that leave files and journal alone, and the clock.    *)
LEMMA CfgEndInv ==
  ASSUME CfgInv, CfgVerify \/ CfgCrash \/ CfgTick \/ UNCHANGED cfgVars
  PROVE  CfgInv'
<1>1. UNCHANGED <<cfgFiles, cfgInstall, cfgEvents, cfgOvertaken, cfgBackup>>
  BY DEF CfgVerify, CfgCrash, CfgTick, CfgStep, cfgVars
<1>2. cfgMinute' \in 0..MaxMinutes
  BY GameConfigAssumption DEF CfgVerify, CfgCrash, CfgTick, CfgStep, cfgVars, CfgInv, CfgShape
<1>3. cfgPc' = "idle" \/ UNCHANGED <<cfgPc, cfgRun, cfgRestore>>
  BY DEF CfgVerify, CfgCrash, CfgTick, CfgStep, cfgVars
<1>4. CfgShape'
  BY <1>1, <1>2, <1>3 DEF CfgInv, CfgShape
<1>5. Grounded' /\ DeployedFilesRecoverable'
  BY <1>1 DEF CfgInv, Grounded, DeployedFilesRecoverable, read_file
<1>6. RunJournaled' /\ RestoreProgress'
  BY <1>1, <1>3 DEF CfgInv, RunJournaled, RestoreProgress, RestoreSound, read_file
<1> QED BY <1>4, <1>5, <1>6 DEF CfgInv

(* A user's edit leaves no deployed bytes where there were none.           *)
LEMMA CfgEventInv == ASSUME CfgInv, CfgEvent PROVE CfgInv'
<1>1. /\ UNCHANGED <<cfgMinute, cfgBackup, cfgRun, cfgRestore, cfgPc, cfgOvertaken>>
      /\ cfgEvents' \in 0..MaxCfgEvents
  BY GameConfigAssumption DEF CfgEvent, CfgInv, CfgShape
<1>2. /\ cfgInstall' \in CfgInstalls \cup {NoFile}
      /\ cfgFiles' \in [CfgInstalls -> [CfgTargets -> CfgBytes]]
      /\ \A x \in CfgInstalls \X CfgTargets :
           read_file(x[1], x[2])' \in SuiteBytes => read_file(x[1], x[2]) \in SuiteBytes
  <2>1. CASE cfgFiles' = cfgFiles /\ cfgInstall' \in CfgInstalls \cup {NoFile}
    BY <2>1 DEF read_file, CfgInv, CfgShape
  <2>2. ASSUME NEW i \in CfgInstalls, NEW f \in CfgTargets, NEW u \in UserBytes \cup {NoFile},
               cfgFiles' = [cfgFiles EXCEPT ![i][f] = u], cfgInstall' = cfgInstall
        PROVE  /\ cfgInstall' \in CfgInstalls \cup {NoFile}
               /\ cfgFiles' \in [CfgInstalls -> [CfgTargets -> CfgBytes]]
               /\ \A x \in CfgInstalls \X CfgTargets :
                    read_file(x[1], x[2])' \in SuiteBytes => read_file(x[1], x[2]) \in SuiteBytes
    <3>1. u \in CfgBytes /\ u \notin SuiteBytes
      BY WhoseBytesAssumption DEF CfgBytes
    <3>2. cfgFiles' = atomic_replace(i, f, u)
      BY <2>2 DEF atomic_replace
    <3>3. /\ cfgFiles' \in [CfgInstalls -> [CfgTargets -> CfgBytes]]
          /\ \A x \in CfgInstalls \X CfgTargets :
               read_file(x[1], x[2])' = IF x = <<i, f>> THEN u ELSE read_file(x[1], x[2])
      BY <3>1, <3>2, FileReplaced DEF CfgInv
    <3> QED BY <2>2, <3>1, <3>3 DEF CfgInv, CfgShape
  <2> QED BY <2>1, <2>2 DEF CfgEvent
<1>3. CfgShape'
  BY <1>1, <1>2 DEF CfgInv, CfgShape
<1>4. DeployedFilesRecoverable'
  BY <1>1, <1>2 DEF CfgInv, DeployedFilesRecoverable
<1>5. Grounded' /\ RunJournaled'
  BY <1>1 DEF CfgInv, Grounded, RunJournaled
<1>6. RestoreProgress'
  <2> SUFFICES ASSUME cfgPc = "restore" PROVE RestoreProgress'
    BY <1>1 DEF RestoreProgress
  <2>1. PICK r : r = cfgRestore[1]
    OBVIOUS
  <2>2. PICK e : e = Head(r.left)
    OBVIOUS
  <2>3. r \in CfgRestores /\ RestoreSound(r)
    BY <2>1 DEF CfgInv, CfgShape, RestoreProgress
  <2>4. ASSUME r.left # <<>>, NEW k \in 1..(r.at - 1), read_file(e.install, e.targets[k])' \in SuiteBytes
        PROVE  CapturedDeployed(e, <<e.install, e.targets[k]>>)
    <3>1. e \in CfgEntries /\ r.at \in Nat
      BY <2>2, <2>3, <2>4 DEF CfgRestores
    <3>2. k \in 1..Len(e.targets)
      BY <2>2, <2>3, <2>4, <3>1, EntryFields DEF RestoreSound
    <3>3. e.install \in CfgInstalls /\ e.targets[k] \in CfgTargets
      BY <3>1, <3>2, EntryFields
    <3>4. PICK x : x = <<e.install, e.targets[k]>>
      OBVIOUS
    <3>5. x \in CfgInstalls \X CfgTargets /\ x[1] = e.install /\ x[2] = e.targets[k]
      BY <3>3, <3>4
    <3>6. read_file(x[1], x[2])' \in SuiteBytes
      BY <2>4, <3>5 DEF read_file
    <3>7. read_file(e.install, e.targets[k]) \in SuiteBytes
      BY <1>2, <3>5, <3>6
    <3> QED BY <2>2, <2>3, <2>4, <3>7 DEF RestoreSound
  <2>5. RestoreSound(r)'
    <3>1. /\ Len(r.left) <= Len(cfgBackup')
          /\ \A j \in DOMAIN r.left : r.left[j] = cfgBackup'[Len(r.left) + 1 - j]
          /\ \A b \in DOMAIN r.kept : \E n \in DOMAIN cfgBackup' : r.kept[b] = cfgBackup'[n]
          /\ r.left # <<>> => r.at <= Len(e.targets)
      BY <1>1, <2>2, <2>3 DEF RestoreSound
    <3>2. \A x \in (CfgInstalls \X CfgTargets) \ cfgOvertaken' :
            read_file(x[1], x[2])' \in SuiteBytes => JournaledIn(r.left, x) \/ JournaledIn(r.kept, x)
      BY <1>1, <1>2, <2>3 DEF RestoreSound
    <3> QED BY <2>2, <2>4, <3>1, <3>2 DEF RestoreSound
  <2> QED BY <1>1, <2>1, <2>5 DEF RestoreProgress
<1> QED BY <1>3, <1>4, <1>5, <1>6 DEF CfgInv

LEMMA CfgRestoreInv == ASSUME CfgInv, CfgRestore PROVE CfgInv'
<1>1. PICK steps \in CfgSelections :
        cfgRestore' = <<[left |-> restore_order(cfgBackup), kept |-> <<>>, steps |-> steps, at |-> 1]>>
  BY DEF CfgRestore
<1>2. /\ UNCHANGED <<cfgFiles, cfgInstall, cfgMinute, cfgBackup, cfgEvents, cfgOvertaken>>
      /\ cfgPc' = "restore" /\ cfgBackup # <<>>
  BY DEF CfgRestore
<1>3. PICK left : left = restore_order(cfgBackup)
  OBVIOUS
<1>4. cfgBackup \in Seq(CfgEntries) /\ Len(cfgBackup) \in Nat \ {0}
  BY <1>2 DEF CfgInv, CfgShape
<1>5. /\ left \in Seq(CfgEntries) /\ Len(left) = Len(cfgBackup) /\ left # <<>>
      /\ \A j \in DOMAIN left : left[j] = cfgBackup[Len(left) + 1 - j]
  <2>1. left = [j \in 1..Len(cfgBackup) |-> cfgBackup[(Len(cfgBackup) - j) + 1]]
    BY <1>3 DEF restore_order, Reverse
  <2>2. \A j \in 1..Len(cfgBackup) :
          (Len(cfgBackup) - j) + 1 \in 1..Len(cfgBackup) /\ (Len(cfgBackup) - j) + 1 = Len(cfgBackup) + 1 - j
    BY <1>4
  <2>3. \A j \in 1..Len(cfgBackup) : cfgBackup[(Len(cfgBackup) - j) + 1] \in CfgEntries
    BY <1>4, <2>2
  <2>4. left \in Seq(CfgEntries) /\ Len(left) = Len(cfgBackup)
    BY <1>4, <2>1, <2>3
  <2> QED BY <1>4, <2>1, <2>2, <2>4
<1>6. PICK r : r = [left |-> left, kept |-> <<>>, steps |-> steps, at |-> 1]
  OBVIOUS
<1>7. r \in CfgRestores /\ cfgRestore' = <<r>> /\ cfgRestore'[1] = r
  <2>1. steps \in SUBSET CfgSteps
    BY GameConfigAssumption DEF CfgSteps
  <2> QED BY <1>1, <1>3, <1>5, <1>6, <2>1 DEF CfgRestores
<1>8. CfgShape'
  BY <1>2, <1>7 DEF CfgInv, CfgShape
<1>9. Grounded' /\ DeployedFilesRecoverable' /\ RunJournaled'
  BY <1>2 DEF CfgInv, Grounded, DeployedFilesRecoverable, RunJournaled, read_file
<1>10. RestoreSound(r)'
  <2>1. \A x : JournaledIn(cfgBackup, x) => JournaledIn(left, x)
    <3> SUFFICES ASSUME NEW x, NEW n \in DOMAIN cfgBackup, Covers(cfgBackup[n], x)
                 PROVE  JournaledIn(left, x)
      BY DEF JournaledIn
    <3>1. PICK j : j = Len(left) + 1 - n
      OBVIOUS
    <3>2. j \in DOMAIN left /\ Len(left) + 1 - j = n
      BY <1>4, <1>5, <3>1
    <3> QED BY <1>5, <3>2 DEF JournaledIn
  <2>2. \A x \in (CfgInstalls \X CfgTargets) \ cfgOvertaken :
          read_file(x[1], x[2]) \in SuiteBytes => JournaledIn(left, x)
    BY <2>1 DEF CfgInv, DeployedFilesRecoverable
  <2>3. r.left = left /\ r.kept = <<>> /\ r.at = 1
    BY <1>6
  <2>4. Head(left) \in CfgEntries
    BY <1>5
  <2>5. 1 <= Len(Head(left).targets)
    BY <2>4, EntryFields
  <2>6. Len(left) <= Len(cfgBackup) /\ DOMAIN r.kept = {} /\ 1..(r.at - 1) = {}
    BY <1>4, <1>5, <2>3
  <2> QED BY <1>2, <1>5, <2>2, <2>3, <2>5, <2>6 DEF RestoreSound, read_file
<1>11. RestoreProgress'
  BY <1>7, <1>10 DEF RestoreProgress
<1> QED BY <1>8, <1>9, <1>11 DEF CfgInv

(* The entry a restore is at is the youngest of those it has left.         *)
LEMMA PresentEntry ==
  ASSUME CfgInv, cfgPc = "restore", NEW r, r = cfgRestore[1], r.left # <<>>, NEW e, e = Head(r.left)
  PROVE  /\ r \in CfgRestores /\ RestoreSound(r) /\ e \in CfgEntries
         /\ r.left \in Seq(CfgEntries) /\ r.kept \in Seq(CfgEntries)
         /\ r.at \in 1..Len(e.targets) /\ Len(r.left) \in Nat \ {0}
         /\ Len(r.left) \in DOMAIN cfgBackup /\ e = cfgBackup[Len(r.left)]
         /\ Tail(r.left) \in Seq(CfgEntries) /\ Len(Tail(r.left)) = Len(r.left) - 1
         /\ \A j \in DOMAIN Tail(r.left) :
              Tail(r.left)[j] = cfgBackup[Len(Tail(r.left)) + 1 - j]
         /\ \A x : JournaledIn(r.left, x) => Covers(e, x) \/ JournaledIn(Tail(r.left), x)
         /\ \A x : \A m \in 1..(Len(r.left) - 1) : Covers(cfgBackup[m], x) => JournaledIn(Tail(r.left), x)
<1>1. r \in CfgRestores /\ RestoreSound(r)
  BY DEF CfgInv, CfgShape, RestoreProgress
<1>2. /\ r.left \in Seq(CfgEntries) /\ r.kept \in Seq(CfgEntries) /\ r.at \in Nat \ {0}
  BY <1>1 DEF CfgRestores
<1>3. PICK n : n = Len(r.left)
  OBVIOUS
<1>4. /\ n \in Nat \ {0} /\ e = r.left[1] /\ e \in CfgEntries /\ DOMAIN r.left = 1..n
  BY <1>2, <1>3
<1>5. cfgBackup \in Seq(CfgEntries) /\ Len(cfgBackup) \in Nat /\ DOMAIN cfgBackup = 1..Len(cfgBackup)
  BY DEF CfgInv, CfgShape
<1>6. n <= Len(cfgBackup) /\ \A j \in 1..n : r.left[j] = cfgBackup[n + 1 - j]
  BY <1>1, <1>3, <1>4 DEF RestoreSound
<1>7. n \in DOMAIN cfgBackup /\ e = cfgBackup[n]
  <2>1. n + 1 - 1 = n /\ 1 \in 1..n
    BY <1>4
  <2> QED BY <1>4, <1>5, <1>6, <2>1
<1>8. r.at \in 1..Len(e.targets)
  BY <1>1, <1>2, <1>4, EntryFields DEF RestoreSound
<1>9. PICK t : t = Tail(r.left)
  OBVIOUS
<1>10. t \in Seq(CfgEntries) /\ Len(t) = n - 1 /\ \A j \in 1..(n - 1) : t[j] = r.left[j + 1]
  BY <1>2, <1>3, <1>4, <1>9, HeadTailProperties
<1>11. DOMAIN t = 1..(n - 1)
  BY <1>10
<1>12. \A j \in DOMAIN t : t[j] = cfgBackup[Len(t) + 1 - j]
  <2> TAKE j \in DOMAIN t
  <2>1. j + 1 \in 1..n /\ n + 1 - (j + 1) = Len(t) + 1 - j
    BY <1>4, <1>10, <1>11
  <2> QED BY <1>6, <1>10, <1>11, <2>1
<1>13. ASSUME NEW x, JournaledIn(r.left, x) PROVE Covers(e, x) \/ JournaledIn(t, x)
  <2>1. PICK j \in 1..n : Covers(r.left[j], x)
    BY <1>4, <1>13 DEF JournaledIn
  <2>2. CASE j = 1
    BY <1>4, <2>1, <2>2
  <2>3. CASE j # 1
    <3>1. j - 1 \in 1..(n - 1) /\ (j - 1) + 1 = j
      BY <1>4, <2>3
    <3>2. t[j - 1] = r.left[j]
      BY <1>10, <3>1
    <3> QED BY <1>11, <2>1, <3>1, <3>2 DEF JournaledIn
  <2> QED BY <2>2, <2>3
<1>14. ASSUME NEW x, NEW m \in 1..(n - 1), Covers(cfgBackup[m], x) PROVE JournaledIn(t, x)
  <2>1. PICK j : j = n - m
    OBVIOUS
  <2>2. j \in DOMAIN t /\ Len(t) + 1 - j = m
    BY <1>4, <1>10, <1>11, <2>1
  <2> QED BY <1>12, <1>14, <2>2 DEF JournaledIn
<1>15. \A x : \A m \in 1..(n - 1) : Covers(cfgBackup[m], x) => JournaledIn(t, x)
  BY <1>14
<1>16. \A x : JournaledIn(r.left, x) => Covers(e, x) \/ JournaledIn(t, x)
  BY <1>13
<1> QED BY <1>1, <1>2, <1>3, <1>4, <1>7, <1>8, <1>9, <1>10, <1>12, <1>15, <1>16

(* The file that a restore writes is one its present entry covers, so it   *)
(* stays journaled while that entry does.                                  *)
LEMMA RestoredFile ==
  ASSUME CfgInv, cfgPc = "restore", NEW r, r = cfgRestore[1], r.left # <<>>, NEW e, e = Head(r.left),
         cfgFiles' = RestoredFiles(r)
  PROVE  /\ cfgFiles' \in [CfgInstalls -> [CfgTargets -> CfgBytes]]
         /\ \A x \in CfgInstalls \X CfgTargets : read_file(x[1], x[2])' \in SuiteBytes =>
              Covers(e, x) \/ read_file(x[1], x[2]) \in SuiteBytes
         /\ \A k \in 1..r.at : read_file(e.install, e.targets[k])' \in SuiteBytes =>
              CapturedDeployed(e, <<e.install, e.targets[k]>>)
<1>1. /\ RestoreSound(r) /\ e \in CfgEntries /\ r.at \in 1..Len(e.targets)
  BY PresentEntry
<1>2. PICK i \in CfgInstalls, f \in CfgTargets, u \in CfgBytes :
        i = e.install /\ f = e.targets[r.at] /\ u = e.bytes[r.at]
  BY <1>1, EntryFields
<1>3. cfgFiles' = atomic_replace(i, f, u)
  BY <1>2 DEF RestoredFiles
<1>4. /\ cfgFiles' \in [CfgInstalls -> [CfgTargets -> CfgBytes]]
      /\ \A x \in CfgInstalls \X CfgTargets :
           read_file(x[1], x[2])' = IF x = <<i, f>> THEN u ELSE read_file(x[1], x[2])
  BY <1>3, FileReplaced DEF CfgInv
<1>5. Covers(e, <<i, f>>)
  BY <1>1, <1>2, EntryFields DEF Covers
<1>6. ASSUME NEW k \in 1..r.at, read_file(e.install, e.targets[k])' \in SuiteBytes
      PROVE  CapturedDeployed(e, <<e.install, e.targets[k]>>)
  <2>1. k \in 1..Len(e.targets) /\ r.at \in Nat /\ DOMAIN e.targets = 1..Len(e.targets)
    BY <1>1, EntryFields
  <2>2. PICK x : x = <<e.install, e.targets[k]>>
    OBVIOUS
  <2>3. x \in CfgInstalls \X CfgTargets /\ x[1] = e.install /\ x[2] = e.targets[k]
    BY <1>1, <2>1, <2>2, EntryFields
  <2>4. read_file(x[1], x[2])' \in SuiteBytes
    BY <1>6, <2>3 DEF read_file
  <2>5. CASE x = <<i, f>>
    <3>1. u \in SuiteBytes
      BY <1>4, <2>3, <2>4, <2>5
    <3> QED BY <1>1, <1>2, <2>1, <2>2, <2>5, <3>1 DEF CapturedDeployed
  <2>6. CASE x # <<i, f>>
    <3>1. read_file(e.install, e.targets[k]) \in SuiteBytes
      BY <1>4, <2>3, <2>4, <2>6
    <3>2. k \in 1..(r.at - 1)
      BY <1>2, <2>1, <2>2, <2>6
    <3> QED BY <1>1, <3>1, <3>2 DEF RestoreSound
  <2> QED BY <2>5, <2>6
<1> QED BY <1>4, <1>5, <1>6

LEMMA CfgRestoreStepInv == ASSUME CfgInv, CfgRestoreStep PROVE CfgInv'
<1>1. PICK r : r = cfgRestore[1]
  OBVIOUS
<1>2. PICK e : e = Head(r.left)
  OBVIOUS
<1>3. /\ cfgPc = "restore" /\ cfgPc' = "restore" /\ r.left # <<>> /\ cfgFiles' = RestoredFiles(r)
      /\ UNCHANGED <<cfgInstall, cfgMinute, cfgBackup, cfgEvents, cfgOvertaken>>
      /\ cfgRestore' = <<[r EXCEPT !.left = IF r.at = Len(e.targets) THEN Tail(@) ELSE @,
                                   !.at = IF r.at = Len(e.targets) THEN 1 ELSE @ + 1]>>
  BY <1>1, <1>2 DEF CfgRestoreStep
<1>4. /\ r \in CfgRestores /\ RestoreSound(r) /\ e \in CfgEntries
      /\ r.left \in Seq(CfgEntries) /\ r.kept \in Seq(CfgEntries)
      /\ r.at \in 1..Len(e.targets) /\ Len(r.left) \in Nat \ {0}
      /\ Len(r.left) \in DOMAIN cfgBackup /\ e = cfgBackup[Len(r.left)]
      /\ Tail(r.left) \in Seq(CfgEntries) /\ Len(Tail(r.left)) = Len(r.left) - 1
      /\ \A j \in DOMAIN Tail(r.left) :
           Tail(r.left)[j] = cfgBackup[Len(Tail(r.left)) + 1 - j]
      /\ \A x : JournaledIn(r.left, x) => Covers(e, x) \/ JournaledIn(Tail(r.left), x)
      /\ \A x : \A m \in 1..(Len(r.left) - 1) : Covers(cfgBackup[m], x) => JournaledIn(Tail(r.left), x)
  BY <1>1, <1>2, <1>3, PresentEntry
<1>5. /\ cfgFiles' \in [CfgInstalls -> [CfgTargets -> CfgBytes]]
      /\ \A x \in CfgInstalls \X CfgTargets : read_file(x[1], x[2])' \in SuiteBytes =>
           Covers(e, x) \/ read_file(x[1], x[2]) \in SuiteBytes
      /\ \A k \in 1..r.at : read_file(e.install, e.targets[k])' \in SuiteBytes =>
           CapturedDeployed(e, <<e.install, e.targets[k]>>)
  BY <1>1, <1>2, <1>3, RestoredFile
<1>6. Len(cfgBackup) \in Nat /\ DOMAIN cfgBackup = 1..Len(cfgBackup)
  BY DEF CfgInv, CfgShape
<1>7. DeployedFilesRecoverable'
  <2>1. \A x : Covers(e, x) => JournaledIn(cfgBackup, x)
    BY <1>4 DEF JournaledIn
  <2> QED BY <1>3, <1>5, <2>1 DEF CfgInv, DeployedFilesRecoverable
<1>8. \E q \in CfgRestores : cfgRestore' = <<q>> /\ RestoreSound(q)'
  <2>1. CASE r.at = Len(e.targets)
    <3>1. PICK t \in Seq(CfgEntries) : t = Tail(r.left)
      BY <1>4
    <3>2. PICK q : q = [r EXCEPT !.left = t, !.at = 1]
      OBVIOUS
    <3>3. q \in CfgRestores /\ q.left = t /\ q.kept = r.kept /\ q.at = 1
      <4>1. r \in CfgRestores
        BY <1>4
      <4>2. q = [left |-> t, kept |-> r.kept, steps |-> r.steps, at |-> 1]
        BY <3>2, <4>1 DEF CfgRestores
      <4>3. r.kept \in Seq(CfgEntries) /\ r.steps \in SUBSET CfgSteps /\ 1 \in Nat \ {0}
        BY <4>1 DEF CfgRestores
      <4> QED BY <4>2, <4>3 DEF CfgRestores
    <3>4. cfgRestore' = <<q>>
      BY <1>3, <2>1, <3>1, <3>2
    <3>5. /\ Len(t) <= Len(cfgBackup)
          /\ \A j \in DOMAIN t : t[j] = cfgBackup[Len(t) + 1 - j]
          /\ \A b \in DOMAIN r.kept : \E n \in DOMAIN cfgBackup : r.kept[b] = cfgBackup[n]
      BY <1>4, <1>6, <3>1 DEF RestoreSound
    <3>6. ASSUME NEW x \in (CfgInstalls \X CfgTargets) \ cfgOvertaken,
                 read_file(x[1], x[2])' \in SuiteBytes
          PROVE  JournaledIn(t, x) \/ JournaledIn(r.kept, x)
      <4>1. CASE Covers(e, x)
        <5>1. x[1] = e.install /\ x = <<x[1], x[2]>> /\ x[2] \in ToSet(e.targets)
          BY <4>1 DEF Covers
        <5>2. PICK k \in 1..Len(e.targets) : x = <<e.install, e.targets[k]>>
          BY <1>4, <5>1, EntryFields DEF ToSet
        <5>3. read_file(e.install, e.targets[k])' \in SuiteBytes
          BY <3>6, <5>2 DEF read_file
        <5>4. CapturedDeployed(e, x)
          BY <1>5, <2>1, <5>2, <5>3
        <5>5. PICK m \in 1..(Len(r.left) - 1) : Covers(cfgBackup[m], x)
          BY <1>4, <5>4 DEF CfgInv, Grounded
        <5> QED BY <1>4, <3>1, <5>5
      <4>2. CASE ~Covers(e, x)
        <5>1. read_file(x[1], x[2]) \in SuiteBytes
          BY <1>5, <3>6, <4>2
        <5>2. JournaledIn(r.left, x) \/ JournaledIn(r.kept, x)
          BY <1>4, <5>1 DEF RestoreSound
        <5> QED BY <1>4, <3>1, <4>2, <5>2
      <4> QED BY <4>1, <4>2
    <3>7. t # <<>> => 1 <= Len(Head(t).targets)
      <4>1. t # <<>> => Head(t) \in CfgEntries
        BY <3>1
      <4> QED BY <4>1, EntryFields
    <3>8. 1..(q.at - 1) = {}
      BY <3>3
    <3>9. RestoreSound(q)'
      BY <1>3, <3>3, <3>5, <3>6, <3>7, <3>8 DEF RestoreSound
    <3> QED BY <3>3, <3>4, <3>9
  <2>2. CASE r.at # Len(e.targets)
    <3>1. PICK q : q = [r EXCEPT !.at = r.at + 1]
      OBVIOUS
    <3>2. q \in CfgRestores /\ q.left = r.left /\ q.kept = r.kept /\ q.at = r.at + 1
      <4>1. r \in CfgRestores /\ r.at \in Nat \ {0}
        BY <1>4 DEF CfgRestores
      <4>2. r.at + 1 \in Nat \ {0}
        BY <4>1
      <4> QED BY <3>1, <4>1, <4>2 DEF CfgRestores
    <3>3. cfgRestore' = <<q>>
      BY <1>3, <1>4, <2>2, <3>1 DEF CfgRestores
    <3>4. /\ Len(r.left) <= Len(cfgBackup)
          /\ \A j \in DOMAIN r.left : r.left[j] = cfgBackup[Len(r.left) + 1 - j]
          /\ \A b \in DOMAIN r.kept : \E n \in DOMAIN cfgBackup : r.kept[b] = cfgBackup[n]
      BY <1>4 DEF RestoreSound
    <3>5. \A x : Covers(e, x) => JournaledIn(r.left, x)
      <4>1. 1 \in DOMAIN r.left /\ r.left[1] = e
        BY <1>2, <1>4
      <4> QED BY <4>1 DEF JournaledIn
    <3>6. \A x \in (CfgInstalls \X CfgTargets) \ cfgOvertaken :
            read_file(x[1], x[2])' \in SuiteBytes => JournaledIn(r.left, x) \/ JournaledIn(r.kept, x)
      BY <1>4, <1>5, <3>5 DEF RestoreSound
    <3>7. q.at <= Len(e.targets) /\ 1..(q.at - 1) = 1..r.at
      BY <1>4, <2>2, <3>2, EntryFields
    <3>8. RestoreSound(q)'
      BY <1>2, <1>3, <1>5, <3>2, <3>4, <3>6, <3>7 DEF RestoreSound
    <3> QED BY <3>2, <3>3, <3>8
  <2> QED BY <2>1, <2>2
<1>9. PICK q \in CfgRestores : cfgRestore' = <<q>> /\ RestoreSound(q)'
  BY <1>8
<1>10. cfgRestore'[1] = q
  BY <1>9
<1>11. CfgShape'
  BY <1>3, <1>5, <1>9, <1>10 DEF CfgInv, CfgShape
<1>12. Grounded' /\ RunJournaled'
  BY <1>3 DEF CfgInv, Grounded, RunJournaled
<1>13. RestoreProgress'
  BY <1>9, <1>10 DEF RestoreProgress
<1> QED BY <1>7, <1>11, <1>12, <1>13 DEF CfgInv

LEMMA CfgRestoreKeepInv == ASSUME CfgInv, CfgRestoreKeep PROVE CfgInv'
<1>1. PICK r : r = cfgRestore[1]
  OBVIOUS
<1>2. PICK e : e = Head(r.left)
  OBVIOUS
<1>3. /\ cfgPc = "restore" /\ cfgPc' = "restore" /\ r.left # <<>>
      /\ cfgFiles' = cfgFiles \/ cfgFiles' = RestoredFiles(r)
      /\ UNCHANGED <<cfgInstall, cfgMinute, cfgBackup, cfgEvents, cfgOvertaken>>
      /\ cfgRestore' = <<[r EXCEPT !.left = Tail(@), !.kept = <<e>> \o @, !.at = 1]>>
  BY <1>1, <1>2 DEF CfgRestoreKeep
<1>4. /\ r \in CfgRestores /\ RestoreSound(r) /\ e \in CfgEntries
      /\ r.left \in Seq(CfgEntries) /\ r.kept \in Seq(CfgEntries)
      /\ Len(r.left) \in Nat \ {0}
      /\ Len(r.left) \in DOMAIN cfgBackup /\ e = cfgBackup[Len(r.left)]
      /\ Tail(r.left) \in Seq(CfgEntries) /\ Len(Tail(r.left)) = Len(r.left) - 1
      /\ \A j \in DOMAIN Tail(r.left) :
           Tail(r.left)[j] = cfgBackup[Len(Tail(r.left)) + 1 - j]
      /\ \A x : JournaledIn(r.left, x) => Covers(e, x) \/ JournaledIn(Tail(r.left), x)
  BY <1>1, <1>2, <1>3, PresentEntry
<1>5. /\ cfgFiles' \in [CfgInstalls -> [CfgTargets -> CfgBytes]]
      /\ \A x \in CfgInstalls \X CfgTargets : read_file(x[1], x[2])' \in SuiteBytes =>
           Covers(e, x) \/ read_file(x[1], x[2]) \in SuiteBytes
  <2>1. CASE cfgFiles' = RestoredFiles(r)
    BY <1>1, <1>2, <1>3, <2>1, RestoredFile
  <2>2. CASE cfgFiles' = cfgFiles
    BY <2>2 DEF CfgInv, CfgShape, read_file
  <2> QED BY <1>3, <2>1, <2>2
<1>6. Len(cfgBackup) \in Nat /\ DOMAIN cfgBackup = 1..Len(cfgBackup)
  BY DEF CfgInv, CfgShape
<1>7. DeployedFilesRecoverable'
  <2>1. \A x : Covers(e, x) => JournaledIn(cfgBackup, x)
    BY <1>4 DEF JournaledIn
  <2> QED BY <1>3, <1>5, <2>1 DEF CfgInv, DeployedFilesRecoverable
<1>8. PICK t \in Seq(CfgEntries) : t = Tail(r.left)
  BY <1>4
<1>9. PICK kept : kept = <<e>> \o r.kept
  OBVIOUS
<1>10. /\ kept \in Seq(CfgEntries)
       /\ \A b \in DOMAIN kept : kept[b] = e \/ \E a \in DOMAIN r.kept : kept[b] = r.kept[a]
       /\ \E b \in DOMAIN kept : kept[b] = e
       /\ \A a \in DOMAIN r.kept : \E b \in DOMAIN kept : kept[b] = r.kept[a]
  <2>1. <<e>> \in Seq(CfgEntries) /\ Len(<<e>>) = 1 /\ <<e>>[1] = e
    BY <1>4
  <2>2. /\ kept \in Seq(CfgEntries) /\ Len(kept) = Len(r.kept) + 1 /\ Len(r.kept) \in Nat
        /\ kept[1] = e /\ \A b \in 2..(Len(r.kept) + 1) : kept[b] = r.kept[b - 1]
    BY <1>4, <1>9, <2>1, ConcatProperties
  <2>3. DOMAIN kept = 1..(Len(r.kept) + 1) /\ DOMAIN r.kept = 1..Len(r.kept)
    BY <1>4, <2>2
  <2>4. ASSUME NEW b \in DOMAIN kept, b # 1
        PROVE  b - 1 \in DOMAIN r.kept /\ kept[b] = r.kept[b - 1]
    BY <2>2, <2>3, <2>4
  <2>5. ASSUME NEW a \in DOMAIN r.kept PROVE a + 1 \in DOMAIN kept /\ kept[a + 1] = r.kept[a]
    <3>1. a + 1 \in 2..(Len(r.kept) + 1) /\ (a + 1) - 1 = a
      BY <2>2, <2>3
    <3> QED BY <2>2, <2>3, <3>1
  <2>6. 1 \in DOMAIN kept
    BY <2>2, <2>3
  <2> QED BY <2>2, <2>4, <2>5, <2>6
<1>11. PICK q : q = [r EXCEPT !.left = t, !.kept = kept, !.at = 1]
  OBVIOUS
<1>12. q \in CfgRestores /\ q.left = t /\ q.kept = kept /\ q.at = 1
  <2>1. r \in CfgRestores /\ kept \in Seq(CfgEntries)
    BY <1>4, <1>10
  <2>2. q = [left |-> t, kept |-> kept, steps |-> r.steps, at |-> 1]
    BY <1>11, <2>1 DEF CfgRestores
  <2>3. r.steps \in SUBSET CfgSteps /\ 1 \in Nat \ {0}
    BY <2>1 DEF CfgRestores
  <2> QED BY <2>1, <2>2, <2>3 DEF CfgRestores
<1>13. cfgRestore' = <<q>> /\ cfgRestore'[1] = q
  BY <1>3, <1>8, <1>9, <1>11
<1>14. RestoreSound(q)'
  <2>1. /\ Len(t) <= Len(cfgBackup)
        /\ \A j \in DOMAIN t : t[j] = cfgBackup[Len(t) + 1 - j]
    BY <1>4, <1>6, <1>8
  <2>2. \A b \in DOMAIN kept : \E n \in DOMAIN cfgBackup : kept[b] = cfgBackup[n]
    BY <1>4, <1>10 DEF RestoreSound
  <2>3. ASSUME NEW x \in (CfgInstalls \X CfgTargets) \ cfgOvertaken,
               read_file(x[1], x[2])' \in SuiteBytes
        PROVE  JournaledIn(t, x) \/ JournaledIn(kept, x)
    <3>1. Covers(e, x) => JournaledIn(kept, x)
      BY <1>10 DEF JournaledIn
    <3>2. JournaledIn(r.kept, x) => JournaledIn(kept, x)
      BY <1>10 DEF JournaledIn
    <3>3. Covers(e, x) \/ JournaledIn(r.left, x) \/ JournaledIn(r.kept, x)
      BY <1>4, <1>5, <2>3 DEF RestoreSound
    <3> QED BY <1>4, <1>8, <3>1, <3>2, <3>3
  <2>4. t # <<>> => 1 <= Len(Head(t).targets)
    <3>1. t # <<>> => Head(t) \in CfgEntries
      BY <1>8
    <3> QED BY <3>1, EntryFields
  <2>5. 1..(q.at - 1) = {}
    BY <1>12
  <2> QED BY <1>3, <1>12, <2>1, <2>2, <2>3, <2>4, <2>5 DEF RestoreSound
<1>15. CfgShape'
  BY <1>3, <1>5, <1>12, <1>13 DEF CfgInv, CfgShape
<1>16. Grounded' /\ RunJournaled'
  BY <1>3 DEF CfgInv, Grounded, RunJournaled
<1>17. RestoreProgress'
  BY <1>13, <1>14 DEF RestoreProgress
<1> QED BY <1>7, <1>15, <1>16, <1>17 DEF CfgInv

LEMMA CfgRestoreCommitInv == ASSUME CfgInv, CfgRestoreCommit PROVE CfgInv'
<1>1. PICK r : r = cfgRestore[1]
  OBVIOUS
<1>2. /\ cfgPc = "restore" /\ cfgPc' = "idle" /\ r.left = <<>>
      /\ UNCHANGED <<cfgFiles, cfgInstall, cfgMinute, cfgEvents>>
      /\ cfgBackup' = r.kept
      /\ cfgOvertaken' = cfgOvertaken \cup Overtaken(cfgBackup, r.kept)
  BY <1>1 DEF CfgRestoreCommit, CfgStep
<1>3. r \in CfgRestores /\ RestoreSound(r) /\ r.kept \in Seq(CfgEntries)
  BY <1>1, <1>2 DEF CfgInv, CfgShape, RestoreProgress, CfgRestores
<1>4. cfgOvertaken' \subseteq CfgInstalls \X CfgTargets
  BY <1>2 DEF CfgInv, CfgShape, Overtaken
<1>5. CfgShape'
  BY <1>2, <1>3, <1>4 DEF CfgInv, CfgShape
<1>6. DeployedFilesRecoverable'
  <2>1. \A x : ~JournaledIn(r.left, x)
    BY <1>2 DEF JournaledIn
  <2>2. \A x \in (CfgInstalls \X CfgTargets) \ cfgOvertaken :
          read_file(x[1], x[2]) \in SuiteBytes => JournaledIn(r.kept, x)
    BY <1>3, <2>1 DEF RestoreSound
  <2> QED BY <1>2, <2>2 DEF DeployedFilesRecoverable, read_file
<1>7. Grounded'
  <2> SUFFICES ASSUME NEW b \in DOMAIN r.kept,
                      NEW x \in (CfgInstalls \X CfgTargets) \ cfgOvertaken',
                      CapturedDeployed(r.kept[b], x)
               PROVE  \E a \in 1..(b - 1) : Covers(r.kept[a], x)
    BY <1>2 DEF Grounded
  <2>1. PICK n \in DOMAIN cfgBackup : r.kept[b] = cfgBackup[n]
    BY <1>3 DEF RestoreSound
  <2>2. x \notin cfgOvertaken /\ x \notin Overtaken(cfgBackup, r.kept)
    BY <1>2
  <2>3. PICK m \in 1..(n - 1) : Covers(cfgBackup[m], x)
    BY <2>1, <2>2 DEF CfgInv, Grounded
  <2>4. Covers(cfgBackup[n], x)
    BY <2>1 DEF CapturedDeployed, Covers, ToSet
  <2>5. \E a \in 1..(b - 1) : r.kept[a] = cfgBackup[m]
    BY <2>1, <2>2, <2>3, <2>4 DEF Overtaken
  <2> QED BY <2>3, <2>5
<1>8. RunJournaled' /\ RestoreProgress'
  BY <1>2 DEF RunJournaled, RestoreProgress
<1> QED BY <1>5, <1>6, <1>7, <1>8 DEF CfgInv

-----------------------------------------------------------------------------
(* The invariant of the managed CFG files holds in every state: a running   *)
(* transaction is journaled before its first file is written, and a restore *)
(* accounts for every deployed file by an entry it has left or retained     *)
(* (cs2_config.rs, backup/cs2_config.rs, backend/public.rs).                *)
THEOREM CfgInvariant == CfgSpec => []CfgInv
<1>1. CfgInit => CfgInv
  BY CfgInitInv
<1>2. CfgInv /\ [CfgNext]_cfgVars => CfgInv'
  <2> SUFFICES ASSUME CfgInv, [CfgNext]_cfgVars PROVE CfgInv'
    OBVIOUS
  <2>1. CASE capture_cs2_config
    BY <2>1, WriteSets, CfgBeginInv DEF capture_cs2_config, CfgSteps
  <2>2. CASE deploy_optional_cs2_cfgs
    <3>1. PICK assets \in (SUBSET CfgAssets) \ {{}} :
            CfgBegin("CS2:CFG", for_optional_assets(assets))
      BY <2>2 DEF deploy_optional_cs2_cfgs
    <3> QED BY <3>1, WriteSets, CfgBeginInv DEF CfgSteps
  <2>3. CASE CfgJournal
    BY <2>3, CfgJournalInv
  <2>4. CASE CfgReobserve
    BY <2>4, CfgReobserveInv
  <2>5. CASE CfgWrite
    BY <2>5, CfgWriteInv
  <2>6. CASE CfgVerify \/ CfgCrash \/ CfgTick \/ UNCHANGED cfgVars
    BY <2>6, CfgEndInv
  <2>7. CASE CfgRestore
    BY <2>7, CfgRestoreInv
  <2>8. CASE CfgRestoreStep
    BY <2>8, CfgRestoreStepInv
  <2>9. CASE CfgRestoreKeep
    BY <2>9, CfgRestoreKeepInv
  <2>10. CASE CfgRestoreCommit
    BY <2>10, CfgRestoreCommitInv
  <2>11. CASE CfgEvent
    BY <2>11, CfgEventInv
  <2> QED
    BY <2>1, <2>2, <2>3, <2>4, <2>5, <2>6, <2>7, <2>8, <2>9, <2>10, <2>11 DEF CfgNext
<1> QED BY <1>1, <1>2, PTL DEF CfgSpec

(* Every file holds bytes of the suite, of the user or none, and so does   *)
(* what is captured and written back (capture_targets, restore_targets).   *)
THEOREM CfgTypeCorrect == CfgSpec => []CfgTypeOK
<1>1. CfgInv => CfgTypeOK
  BY DEF CfgInv, CfgShape, CfgTypeOK, CfgBytes
<1> QED BY <1>1, CfgInvariant, PTL

(* Deployed bytes are left without a record only where a restore took an    *)
(* older record away and left a younger one of the same file, however many  *)
(* files, installs, edits, failures and interruptions there are             *)
(* (push_first_value, restore_order, restore_targets, restore_matching).    *)
THEOREM DeployedStayRecoverable == CfgSpec => []DeployedFilesRecoverable
<1>1. CfgInv => DeployedFilesRecoverable
  BY DEF CfgInv
<1> QED BY <1>1, CfgInvariant, PTL

-----------------------------------------------------------------------------
(* The interrupt rows: the records of a batch. *)

(* The recursive function of push_all exists and does what it says.        *)
LEMMA PushedFunction ==
  ASSUME NEW entries, NEW new, Len(new) \in Nat
  PROVE  \E f : /\ f = [k \in 0..Len(new) |->
                          IF k = 0 THEN entries ELSE push_first_value(f[k - 1], new[k])]
                /\ push_all(entries, new) = f[Len(new)]
<1> DEFINE Def(f, n) == f = [k \in 0..n |->
                               IF k = 0 THEN entries ELSE push_first_value(f[k - 1], new[k])]
           S == {n \in Nat : \E f : Def(f, n)}
<1>1. 0 \in S
  <2>1. Def([k \in 0..0 |-> entries], 0)
    OBVIOUS
  <2> QED BY <2>1
<1>2. ASSUME NEW n \in Nat, n \in S PROVE n + 1 \in S
  <2>1. PICK f : Def(f, n)
    BY <1>2
  <2>2. PICK g : g = [k \in 0..(n + 1) |->
                        IF k <= n THEN f[k] ELSE push_first_value(f[n], new[n + 1])]
    OBVIOUS
  <2>3. ASSUME NEW k \in 0..(n + 1)
        PROVE  g[k] = IF k = 0 THEN entries ELSE push_first_value(g[k - 1], new[k])
    <3>1. CASE k = 0
      BY <2>1, <2>2, <3>1
    <3>2. CASE k # 0 /\ k <= n
      <4>1. k \in 0..n /\ k - 1 \in 0..n /\ k - 1 \in 0..(n + 1) /\ k - 1 <= n
        BY <3>2
      <4>2. g[k] = f[k] /\ g[k - 1] = f[k - 1]
        BY <2>2, <3>2, <4>1
      <4>3. f[k] = push_first_value(f[k - 1], new[k])
        BY <2>1, <3>2, <4>1
      <4> QED BY <3>2, <4>2, <4>3
    <3>3. CASE k = n + 1
      <4>1. k # 0 /\ ~(k <= n) /\ k - 1 = n /\ n \in 0..(n + 1)
        BY <3>3
      <4>2. g[k] = push_first_value(f[n], new[n + 1]) /\ g[n] = f[n]
        BY <2>2, <4>1
      <4> QED BY <3>3, <4>1, <4>2
    <3> QED BY <3>1, <3>2, <3>3
  <2>4. g = [k \in 0..(n + 1) |-> g[k]]
    BY <2>2
  <2>5. Def(g, n + 1)
    BY <2>3, <2>4
  <2> QED BY <2>5
<1>3. \E f : Def(f, Len(new))
  <2>1. Nat \subseteq S
    <3> HIDE DEF S
    <3> QED BY <1>1, <1>2, SetInduction
  <2> QED BY <2>1
<1>4. PICK f : f = (CHOOSE g : Def(g, Len(new)))
  OBVIOUS
<1>5. Def(f, Len(new))
  BY <1>3, <1>4
<1>6. push_all(entries, new) = f[Len(new)]
  BY <1>4 DEF push_all
<1> QED BY <1>5, <1>6

(* What a list of records is after those of new up to the k-th were pushed. *)
Pushed(E, entries, new, k, list) ==
  /\ list \in Seq(E)
  /\ \A i \in DOMAIN entries : \E j \in DOMAIN list : list[j] = entries[i]
  /\ \A i \in 1..k : \E j \in DOMAIN list : list[j].slot = new[i].slot
  /\ \A j \in DOMAIN list :
       \/ \E i \in DOMAIN entries : list[j] = entries[i]
       \/ \E i \in 1..k : list[j] = new[i] /\ \A m \in DOMAIN entries : entries[m].slot # new[i].slot

LEMMA PushOne ==
  ASSUME NEW E, NEW entries \in Seq(E), NEW new \in Seq(E), NEW k \in Nat, k + 1 \in DOMAIN new,
         NEW list, Pushed(E, entries, new, k, list)
  PROVE  Pushed(E, entries, new, k + 1, push_first_value(list, new[k + 1]))
<1>1. PICK e \in E : e = new[k + 1]
  OBVIOUS
<1>2. PICK after : after = push_first_value(list, e)
  OBVIOUS
<1>3. list \in Seq(E) /\ Len(list) \in Nat /\ DOMAIN list = 1..Len(list)
  BY DEF Pushed
<1>4. \A i \in 1..(k + 1) : i \in 1..k \/ i = k + 1
  OBVIOUS
<1>5. CASE \E j \in DOMAIN list : list[j].slot = e.slot
  <2>1. after = list
    BY <1>2, <1>5 DEF push_first_value
  <2>2. \A i \in 1..(k + 1) : \E j \in DOMAIN list : list[j].slot = new[i].slot
    BY <1>1, <1>4, <1>5 DEF Pushed
  <2>3. \A i \in 1..k : i \in 1..(k + 1)
    OBVIOUS
  <2>4. Pushed(E, entries, new, k + 1, list)
    BY <2>2, <2>3 DEF Pushed
  <2> QED BY <1>1, <1>2, <2>1, <2>4
<1>6. CASE ~\E j \in DOMAIN list : list[j].slot = e.slot
  <2>1. after = Append(list, e)
    BY <1>2, <1>6 DEF push_first_value
  <2>2. /\ after \in Seq(E) /\ DOMAIN after = 1..(Len(list) + 1)
        /\ after[Len(list) + 1] = e /\ \A j \in DOMAIN list : j \in DOMAIN after /\ after[j] = list[j]
        /\ \A j \in DOMAIN after : j \in DOMAIN list \/ j = Len(list) + 1
    BY <1>3, <2>1
  <2>3. \A i \in DOMAIN entries : \E j \in DOMAIN after : after[j] = entries[i]
    BY <2>2 DEF Pushed
  <2>4. ASSUME NEW i \in 1..(k + 1) PROVE \E j \in DOMAIN after : after[j].slot = new[i].slot
    <3>1. CASE i \in 1..k
      BY <2>2, <3>1 DEF Pushed
    <3>2. CASE i = k + 1
      <4>1. Len(list) + 1 \in DOMAIN after
        BY <1>3, <2>2
      <4> QED BY <1>1, <2>2, <3>2, <4>1
    <3> QED BY <1>4, <3>1, <3>2
  <2>5. \A m \in DOMAIN entries : entries[m].slot # e.slot
    BY <1>6 DEF Pushed
  <2>6. ASSUME NEW j \in DOMAIN after
        PROVE  \/ \E i \in DOMAIN entries : after[j] = entries[i]
               \/ \E i \in 1..(k + 1) :
                    after[j] = new[i] /\ \A m \in DOMAIN entries : entries[m].slot # new[i].slot
    <3>1. CASE j \in DOMAIN list
      <4>1. \A i \in 1..k : i \in 1..(k + 1)
        OBVIOUS
      <4>2. after[j] = list[j]
        BY <2>2, <3>1
      <4>3. \/ \E i \in DOMAIN entries : list[j] = entries[i]
            \/ \E i \in 1..k :
                 list[j] = new[i] /\ \A m \in DOMAIN entries : entries[m].slot # new[i].slot
        BY <3>1 DEF Pushed
      <4> QED BY <4>1, <4>2, <4>3
    <3>2. CASE j = Len(list) + 1
      <4>1. k + 1 \in 1..(k + 1)
        OBVIOUS
      <4> QED BY <1>1, <2>2, <2>5, <3>2, <4>1
    <3> QED BY <2>2, <3>1, <3>2
  <2>7. Pushed(E, entries, new, k + 1, after)
    BY <2>2, <2>3, <2>4, <2>6 DEF Pushed
  <2> QED BY <1>1, <1>2, <2>7
<1> QED BY <1>5, <1>6

LEMMA PushAll ==
  ASSUME NEW E, NEW entries \in Seq(E), NEW new \in Seq(E)
  PROVE  Pushed(E, entries, new, Len(new), push_all(entries, new))
<1>1. Len(new) \in Nat /\ DOMAIN new = 1..Len(new)
  OBVIOUS
<1>2. PICK f : /\ f = [k \in 0..Len(new) |->
                         IF k = 0 THEN entries ELSE push_first_value(f[k - 1], new[k])]
               /\ push_all(entries, new) = f[Len(new)]
  BY <1>1, PushedFunction
<1> DEFINE S == {k \in Nat : k <= Len(new) => Pushed(E, entries, new, k, f[k])}
<1>3. 0 \in S
  <2>1. f[0] = entries
    BY <1>1, <1>2
  <2>2. 1..0 = {}
    OBVIOUS
  <2>3. Pushed(E, entries, new, 0, entries)
    BY <2>2 DEF Pushed
  <2> QED BY <2>1, <2>3
<1>4. ASSUME NEW n \in Nat, n \in S PROVE n + 1 \in S
  <2> SUFFICES ASSUME n + 1 <= Len(new) PROVE Pushed(E, entries, new, n + 1, f[n + 1])
    OBVIOUS
  <2>1. n <= Len(new) /\ n + 1 \in DOMAIN new /\ n + 1 \in 0..Len(new) /\ n + 1 # 0 /\ (n + 1) - 1 = n
    BY <1>1
  <2>2. Pushed(E, entries, new, n, f[n])
    BY <1>4, <2>1
  <2>3. f[n + 1] = push_first_value(f[n], new[n + 1])
    BY <1>2, <2>1
  <2> QED BY <2>1, <2>2, <2>3, PushOne
<1>5. Nat \subseteq S
  <2> HIDE DEF S
  <2> QED BY <1>3, <1>4, SetInduction
<1>6. Pushed(E, entries, new, Len(new), f[Len(new)])
  BY <1>1, <1>5
<1> QED BY <1>2, <1>6

(* Flattened sequences are sequences of the same elements.                 *)
LEMMA FlattenType ==
  ASSUME NEW T, NEW seqs \in Seq(Seq(T))
  PROVE  FlattenSeq(seqs) \in Seq(T)
<1>1. PICK N \in Nat : N = Len(seqs)
  OBVIOUS
<1>2. CASE N = 0
  <2>1. FlattenSeq(seqs) = seqs
    BY <1>1, <1>2 DEF FlattenSeq
  <2>2. seqs = <<>>
    BY <1>1, <1>2, EmptySeq
  <2>3. seqs \in Seq(T)
    BY <2>2
  <2> QED BY <2>1, <2>3
<1>3. CASE N # 0
  <2> DEFINE Def(f, n) == f = [i \in 1..n |-> IF i = 1 THEN seqs[i] ELSE f[i - 1] \o seqs[i]]
             Has(n) == \E f : Def(f, n) /\ \A i \in 1..n : f[i] \in Seq(T)
             S == {n \in Nat : n + 1 <= N => Has(n + 1)}
  <2>1. 0 \in S
    <3>1. 1 \in DOMAIN seqs /\ seqs[1] \in Seq(T)
      BY <1>1, <1>3
    <3>2. PICK f : f = [i \in 1..1 |-> seqs[1]]
      OBVIOUS
    <3>3. 1..1 = {1} /\ 0 + 1 = 1
      OBVIOUS
    <3>4. Def(f, 1) /\ \A i \in 1..1 : f[i] \in Seq(T)
      BY <3>1, <3>2, <3>3
    <3>5. Has(0 + 1)
      <4> HIDE DEF Def
      <4> QED BY <3>3, <3>4
    <3> QED
      <4> HIDE DEF Has
      <4> QED BY <3>5
  <2>2. ASSUME NEW n \in Nat, n \in S PROVE n + 1 \in S
    <3> HIDE DEF Has
    <3> SUFFICES ASSUME (n + 1) + 1 <= N PROVE Has((n + 1) + 1)
      BY DEF S
    <3>0. PICK m \in Nat : m = n + 1
      OBVIOUS
    <3>8. Has(m)
      <4>1. n + 1 <= N
        OBVIOUS
      <4> QED BY <2>2, <3>0, <4>1
    <3>1. PICK f : Def(f, m) /\ \A i \in 1..m : f[i] \in Seq(T)
      <4> HIDE DEF Def
      <4> QED BY <3>8 DEF Has
    <3>2. PICK g : g = [i \in 1..(m + 1) |-> IF i <= m THEN f[i] ELSE f[m] \o seqs[m + 1]]
      OBVIOUS
    <3>3. m + 1 \in DOMAIN seqs /\ seqs[m + 1] \in Seq(T) /\ m \in 1..m
      BY <1>1, <3>0
    <3>4. f[m] \o seqs[m + 1] \in Seq(T)
      BY <3>1, <3>3, ConcatProperties
    <3>5. ASSUME NEW i \in 1..(m + 1)
          PROVE  /\ g[i] \in Seq(T)
                 /\ g[i] = IF i = 1 THEN seqs[i] ELSE g[i - 1] \o seqs[i]
      <4>1. CASE i <= m
        <5>1. i \in 1..m /\ g[i] = f[i]
          BY <3>2, <4>1
        <5>2. CASE i = 1
          BY <3>1, <5>1, <5>2
        <5>3. CASE i # 1
          <6>1. i - 1 \in 1..m /\ i - 1 \in 1..(m + 1) /\ i - 1 <= m
            BY <5>1, <5>3
          <6>2. g[i - 1] = f[i - 1]
            BY <3>2, <6>1
          <6>3. f[i] = f[i - 1] \o seqs[i]
            BY <3>1, <5>1, <5>3
          <6> QED BY <3>1, <5>1, <5>3, <6>2, <6>3
        <5> QED BY <5>2, <5>3
      <4>2. CASE i = m + 1
        <5>1. i # 1 /\ ~(i <= m) /\ i - 1 = m /\ m \in 1..(m + 1) /\ m <= m
          BY <3>0, <4>2
        <5>2. g[i] = f[m] \o seqs[m + 1] /\ g[m] = f[m]
          BY <3>2, <5>1
        <5> QED BY <3>4, <4>2, <5>1, <5>2
      <4> QED BY <4>1, <4>2
    <3>6. Def(g, m + 1)
      <4>1. g = [i \in 1..(m + 1) |-> g[i]]
        BY <3>2
      <4> QED BY <3>5, <4>1
    <3>7. Has(m + 1)
      <4> HIDE DEF Def
      <4> QED BY <3>5, <3>6 DEF Has
    <3> QED BY <3>0, <3>7
  <2>3. Nat \subseteq S
    <3> HIDE DEF S
    <3> QED BY <2>1, <2>2, SetInduction
  <2>4. PICK f : Def(f, N) /\ \A i \in 1..N : f[i] \in Seq(T)
    <3> HIDE DEF Has
    <3>1. PICK n \in Nat : n + 1 = N
      <4>1. N - 1 \in Nat /\ (N - 1) + 1 = N
        BY <1>3
      <4> QED BY <4>1
    <3>2. n \in S
      <4> HIDE DEF S
      <4> QED BY <2>3
    <3>3. Has(N)
      BY <3>1, <3>2
    <3> HIDE DEF Def
    <3> QED BY <3>3 DEF Has
  <2>5. PICK h : h = (CHOOSE g : Def(g, N))
    OBVIOUS
  <2>6. Def(h, N)
    BY <2>4, <2>5
  <2>7. FlattenSeq(seqs) = h[N]
    BY <1>1, <1>3, <2>5 DEF FlattenSeq
  <2>8. \A i \in 1..N : h[i] \in Seq(T)
    <3> DEFINE R == {n \in Nat : n \in 1..N => h[n] \in Seq(T)}
    <3>1. 0 \in R
      OBVIOUS
    <3>2. ASSUME NEW n \in Nat, n \in R PROVE n + 1 \in R
      <4> SUFFICES ASSUME n + 1 \in 1..N PROVE h[n + 1] \in Seq(T)
        OBVIOUS
      <4>1. n + 1 \in DOMAIN seqs /\ seqs[n + 1] \in Seq(T)
        BY <1>1
      <4>2. h[n + 1] = IF n + 1 = 1 THEN seqs[n + 1] ELSE h[(n + 1) - 1] \o seqs[n + 1]
        BY <2>6
      <4>3. CASE n = 0
        BY <4>1, <4>2, <4>3
      <4>4. CASE n # 0
        <5>1. n \in 1..N /\ (n + 1) - 1 = n /\ n + 1 # 1
          BY <4>4
        <5>2. h[n] \in Seq(T)
          BY <3>2, <5>1
        <5>3. h[n] \o seqs[n + 1] \in Seq(T)
          BY <4>1, <5>2, ConcatProperties
        <5> QED BY <4>2, <5>1, <5>3
      <4> QED BY <4>3, <4>4
    <3>3. Nat \subseteq R
      <4> HIDE DEF R
      <4> QED BY <3>1, <3>2, SetInduction
    <3> QED BY <3>3
  <2>9. N \in 1..N
    BY <1>3
  <2> QED BY <2>7, <2>8, <2>9
<1> QED BY <1>2, <1>3

-----------------------------------------------------------------------------
(* The batches of the rows.                                                *)

LEMMA BuiltChanges ==
  ASSUME NEW d \in IrqDevices PROVE build(d) \in Seq(InChanges)
<1>1. /\ <<d, "MSISupported">> \in Slots /\ <<d, "MessageNumberLimit">> \in Slots
  BY DEF Slots, MsiPolicies, NicPolicies
<1>2. 1 \in InLevels /\ 16 \in InLevels
  BY DEF InLevels
<1>3. Change(d, "MSISupported", 1) \in InChanges /\ Change(d, "MessageNumberLimit", 16) \in InChanges
  BY <1>1, <1>2 DEF Change, InChanges
<1>4. /\ <<Change(d, "MSISupported", 1)>> \in Seq(InChanges)
      /\ <<Change(d, "MessageNumberLimit", 16)>> \in Seq(InChanges) /\ <<>> \in Seq(InChanges)
  BY <1>3
<1>5. CASE d \in DisplayDevices
  <2>1. build(d) = <<Change(d, "MSISupported", 1)>> \o <<Change(d, "MessageNumberLimit", 16)>>
    BY <1>5 DEF build
  <2> QED BY <1>4, <2>1, ConcatProperties
<1>6. CASE d \notin DisplayDevices
  <2>1. build(d) = <<Change(d, "MSISupported", 1)>> \o <<>>
    BY <1>6 DEF build
  <2> QED BY <1>4, <2>1, ConcatProperties
<1> QED BY <1>5, <1>6

LEMMA ChangesType ==
  ASSUME InShape, NEW row \in {"P3:2", "P3:3"}, NEW c \in Changes(row, inHardware)
  PROVE  c \in Seq(InChanges) /\ c # <<>>
<1>1. inHardware.devices \subseteq IrqDevices /\ inHardware.cpus \in ProcessorCounts
  BY DEF InShape
<1>2. CASE row = "P3:2"
  <2>1. PICK D : D = inHardware.devices
    OBVIOUS
  <2>2. IsFiniteSet(D)
    <3>1. IsFiniteSet(IrqDevices)
      BY InterruptsAssumption, FS_Union DEF IrqDevices
    <3> QED BY <1>1, <2>1, <3>1, FS_Subset
  <2>3. Cardinality(D) \in Nat /\ \E f \in [1..Cardinality(D) -> D] : IsInjective(f)
    <3>1. Cardinality(D) \in Nat /\ ExistsBijection(1..Cardinality(D), D)
      BY <2>2, FS_CardinalityType
    <3> QED BY <3>1 DEF ExistsBijection, Bijection, Injection
  <2>4. SetToSeq(D) \in [1..Cardinality(D) -> D]
    BY <2>3 DEF SetToSeq
  <2>5. PICK seqs : seqs = [i \in 1..Cardinality(D) |-> build(SetToSeq(D)[i])]
    OBVIOUS
  <2>6. \A i \in 1..Cardinality(D) : build(SetToSeq(D)[i]) \in Seq(InChanges)
    BY <1>1, <2>1, <2>4, BuiltChanges
  <2>7. seqs \in Seq(Seq(InChanges))
    <3>1. PICK U : U = Seq(InChanges)
      OBVIOUS
    <3>2. seqs \in Seq(U)
      BY <2>3, <2>5, <2>6, <3>1
    <3> QED BY <3>1, <3>2
  <2>8. FlattenSeq(seqs) \in Seq(InChanges)
    BY <2>7, FlattenType
  <2>9. c = FlattenSeq(seqs) /\ c # <<>>
    BY <1>2, <2>1, <2>5 DEF Changes, build_msi_device_batches, enumerate_present_status_ok_pci
  <2> QED BY <2>8, <2>9
<1>3. CASE row # "P3:2"
  <2>1. PICK d \in inHardware.devices, m \in assignment_set_override(inHardware.cpus) :
          c = <<Change(d, "DevicePolicy", 4), Change(d, "AssignmentSetOverride", m)>>
    BY <1>3 DEF Changes, discover_nic_affinity_binding, enumerate_present_status_ok_pci
  <2>2. m \in InLevels /\ 4 \in InLevels
    <3>1. inHardware.cpus \in 0..65
      BY <1>1, InterruptsAssumption
    <3>2. m \in 0..64
      BY <2>1, <3>1 DEF assignment_set_override
    <3> QED BY <3>2 DEF InLevels
  <2>3. <<d, "DevicePolicy">> \in Slots /\ <<d, "AssignmentSetOverride">> \in Slots
    BY <1>1 DEF Slots, MsiPolicies, NicPolicies
  <2>4. /\ Change(d, "DevicePolicy", 4) \in InChanges
        /\ Change(d, "AssignmentSetOverride", m) \in InChanges
    BY <2>2, <2>3 DEF Change, InChanges
  <2> QED BY <2>1, <2>4
<1> QED BY <1>2, <1>3

-----------------------------------------------------------------------------
(* One lemma for every action. *)

LEMMA InInitInv == InInit => InInv
<1> SUFFICES ASSUME NEW D \in (SUBSET IrqDevices) \ {{}}, NEW n \in ProcessorCounts,
                    NEW v \in {NoValue, 0}, InStart(D, n, v)
             PROVE  InInv
  BY DEF InInit
<1>1. v \in InLevels
  BY DEF InLevels
<1>2. InShape
  BY <1>1 DEF InStart, InShape
<1>3. inBackup = <<>> /\ inLeft = <<>> /\ inPc = "idle" /\ inFirst = inValues
  BY DEF InStart
<1> QED BY <1>2, <1>3 DEF InInv, RecordsOriginal, BatchRecorded, PassedRecords, InterruptRecoverable

LEMMA InInspectInv == ASSUME InInv, InInspect PROVE InInv'
<1>0. PICK row \in {"P3:2", "P3:3"} : \E c \in Changes(row, inHardware) :
        inBatch' = {[row |-> row, changes |-> c]}
  BY DEF InInspect
<1>1. PICK c \in Changes(row, inHardware) : inBatch' = {[row |-> row, changes |-> c]}
  BY <1>0
<1>2. /\ inPc' = "inspected" /\ inAt' = 1
      /\ UNCHANGED <<inHardware, inFirst, inChanged, inValues, inBackup, inLeft>>
  BY DEF InInspect, InStep
<1>3. c \in Seq(InChanges) /\ c # <<>> /\ 1 \in DOMAIN c
  <2>1. c \in Seq(InChanges) /\ c # <<>>
    BY ChangesType DEF InInv
  <2> QED BY <2>1
<1>4. PICK b : b = [row |-> row, changes |-> c]
  OBVIOUS
<1>5. b \in InBatches /\ b.changes = c
  BY <1>3, <1>4 DEF InBatches
<1>6. inBatch' = {b} /\ InBatch' = b
  BY <1>1, <1>4 DEF InBatch
<1>7. InShape'
  BY <1>2, <1>3, <1>5, <1>6 DEF InInv, InShape
<1> QED
  BY <1>2, <1>7
    DEF InInv, RecordsOriginal, BatchRecorded, PassedRecords, InterruptRecoverable, InOriginals

LEMMA InCaptureInv == ASSUME InInv, InCapture PROVE InInv'
<1>1. PICK changes : changes = InBatch.changes
  OBVIOUS
<1>2. PICK new : new = capture_interrupt_backups(changes)
  OBVIOUS
<1>3. /\ inPc = "inspected" /\ inPc' = "journaled" /\ inBackup' = push_all(inBackup, new)
      /\ UNCHANGED <<inHardware, inFirst, inChanged, inValues, inBatch, inAt, inLeft>>
  BY <1>1, <1>2 DEF InCapture, InStep
<1>4. inBatch = {InBatch} /\ InBatch \in InBatches /\ inAt \in DOMAIN changes
  BY <1>1, <1>3 DEF InInv, InShape
<1>5. changes \in Seq(InChanges)
  BY <1>1, <1>4 DEF InBatches
<1>6. PICK E : E = [slot : Slots, value : InLevels]
  OBVIOUS
<1>7. /\ new \in Seq(E) /\ Len(new) = Len(changes)
      /\ \A k \in 1..Len(changes) :
           new[k] = [slot |-> changes[k].slot, value |-> inValues[changes[k].slot]]
           /\ changes[k].slot \in Slots
  <2>1. /\ DOMAIN changes = 1..Len(changes) /\ Len(changes) \in Nat
        /\ \A k \in 1..Len(changes) : changes[k] \in InChanges
    BY <1>5
  <2>2. new = [k \in 1..Len(changes) |->
                 [slot |-> changes[k].slot, value |-> inValues[changes[k].slot]]]
    BY <1>2, <2>1 DEF capture_interrupt_backups, read_interrupt_value
  <2>3. \A k \in 1..Len(changes) : changes[k].slot \in Slots
    BY <2>1 DEF InChanges
  <2>4. \A k \in 1..Len(changes) :
          [slot |-> changes[k].slot, value |-> inValues[changes[k].slot]] \in E
    BY <1>6, <2>3 DEF InInv, InShape
  <2> QED BY <2>1, <2>2, <2>3, <2>4
<1>8. inBackup \in Seq(E)
  <2>1. InOriginals \subseteq E
    BY <1>6 DEF InOriginals, InInv, InShape
  <2> QED BY <2>1 DEF InInv, RecordsOriginal
<1>9. Pushed(E, inBackup, new, Len(new), inBackup')
  BY <1>3, <1>7, <1>8, PushAll
<1>10. \A i \in DOMAIN inBackup : inBackup[i] \in InOriginals
  BY DEF InInv, RecordsOriginal
<1>11. inBackup' \in Seq(InOriginals)
  <2>1. ASSUME NEW j \in DOMAIN inBackup' PROVE inBackup'[j] \in InOriginals
    <3>1. CASE \E i \in DOMAIN inBackup : inBackup'[j] = inBackup[i]
      BY <1>10, <3>1
    <3>2. ASSUME NEW i \in 1..Len(new), inBackup'[j] = new[i],
                 \A m \in DOMAIN inBackup : inBackup[m].slot # new[i].slot
          PROVE  inBackup'[j] \in InOriginals
      <4>1. PICK s \in Slots : s = changes[i].slot
        BY <1>7, <3>2
      <4>2. new[i] = [slot |-> s, value |-> inValues[s]] /\ new[i].slot = s
        BY <1>7, <3>2, <4>1
      <4>3. inValues[s] = inFirst[s]
        BY <3>2, <4>2 DEF InInv, InterruptRecoverable
      <4> QED BY <3>2, <4>2, <4>3 DEF InOriginals
    <3> QED BY <1>9, <3>1, <3>2 DEF Pushed
  <2>2. inBackup' \in Seq(E)
    BY <1>9 DEF Pushed
  <2> QED BY <2>1, <2>2
<1>12. RecordsOriginal'
  BY <1>3, <1>11 DEF InInv, RecordsOriginal, InOriginals
<1>13. InBatch' = InBatch
  BY <1>3 DEF InBatch
<1>14. BatchRecorded'
  <2>1. ASSUME NEW k \in DOMAIN changes
        PROVE  \E i \in DOMAIN inBackup' : inBackup'[i].slot = changes[k].slot
    <3>1. k \in 1..Len(changes) /\ Len(new) = Len(changes)
      BY <1>5, <1>7
    <3>2. new[k] = [slot |-> changes[k].slot, value |-> inValues[changes[k].slot]]
      BY <1>7, <3>1
    <3>3. k \in 1..Len(new) /\ new[k].slot = changes[k].slot
      BY <3>1, <3>2
    <3> QED BY <1>9, <3>3 DEF Pushed
  <2> QED BY <1>1, <1>13, <2>1 DEF BatchRecorded
<1>15. InShape'
  BY <1>3, <1>13 DEF InInv, InShape
<1>16. InterruptRecoverable'
  BY <1>3, <1>9 DEF InInv, InterruptRecoverable, Pushed
<1>17. PassedRecords'
  BY <1>3 DEF PassedRecords
<1> QED BY <1>12, <1>14, <1>15, <1>16, <1>17 DEF InInv

LEMMA InReobserveInv == ASSUME InInv, InReobserve PROVE InInv'
<1>1. /\ inPc = "journaled"
      /\ UNCHANGED <<inHardware, inFirst, inChanged, inValues, inBackup, inLeft>>
      /\ inPc' = "idle" \/ (inPc' = "apply" /\ inBatch' = inBatch /\ inAt' = inAt)
  BY DEF InReobserve, InStep
<1>2. inPc' = "apply" => InBatch' = InBatch
  BY <1>1 DEF InBatch
<1>3. InShape'
  BY <1>1, <1>2 DEF InInv, InShape
<1>4. BatchRecorded'
  BY <1>1, <1>2 DEF InInv, BatchRecorded
<1> QED
  BY <1>1, <1>3, <1>4 DEF InInv, RecordsOriginal, PassedRecords, InterruptRecoverable, InOriginals

LEMMA InWriteInv == ASSUME InInv, InWrite PROVE InInv'
<1>1. PICK changes : changes = InBatch.changes
  OBVIOUS
<1>2. PICK c : c = changes[inAt]
  OBVIOUS
<1>3. /\ inPc = "apply" /\ inPc' \in {"idle", "verify", "apply"}
      /\ UNCHANGED <<inHardware, inFirst, inChanged, inBackup, inLeft>>
      /\ inValues' = inValues \/ inValues' = [inValues EXCEPT ![c.slot] = c.value]
      /\ inPc' = "apply" => inBatch' = inBatch /\ inAt' = inAt + 1 /\ inAt # Len(changes)
  BY <1>1, <1>2 DEF InWrite, InStep, write_interrupt_value
<1>4. inBatch = {InBatch} /\ InBatch \in InBatches /\ inAt \in DOMAIN changes
  BY <1>1, <1>3 DEF InInv, InShape
<1>5. changes \in Seq(InChanges) /\ c \in InChanges
  BY <1>1, <1>2, <1>4 DEF InBatches
<1>6. c.slot \in Slots /\ c.value \in InLevels
  BY <1>5 DEF InChanges
<1>7. inPc' = "apply" => InBatch' = InBatch
  BY <1>3 DEF InBatch
<1>8. inPc' = "apply" => inAt' \in DOMAIN changes
  BY <1>3, <1>4, <1>5
<1>9. inValues' \in [Slots -> InLevels]
  BY <1>3, <1>6 DEF InInv, InShape
<1>10. InShape'
  BY <1>1, <1>3, <1>4, <1>7, <1>8, <1>9 DEF InInv, InShape
<1>11. InterruptRecoverable'
  <2>1. PICK i \in DOMAIN inBackup : inBackup[i].slot = c.slot
    BY <1>1, <1>2, <1>3, <1>4 DEF InInv, BatchRecorded
  <2>2. inBackup[i] = [slot |-> c.slot, value |-> inFirst[c.slot]]
    <3>1. inBackup[i] \in InOriginals
      BY DEF InInv, RecordsOriginal
    <3> QED BY <2>1, <3>1 DEF InOriginals
  <2>3. \A s \in Slots : s # c.slot => inValues'[s] = inValues[s]
    BY <1>3, <1>6 DEF InInv, InShape
  <2> QED BY <1>3, <2>2, <2>3 DEF InInv, InterruptRecoverable
<1>12. BatchRecorded'
  BY <1>3, <1>7 DEF InInv, BatchRecorded
<1>13. RecordsOriginal' /\ PassedRecords'
  BY <1>3 DEF InInv, RecordsOriginal, PassedRecords, InOriginals
<1> QED BY <1>10, <1>11, <1>12, <1>13 DEF InInv

(* Ends of a command, and hardware that comes and goes.                    *)
LEMMA InEndInv ==
  ASSUME InInv, InVerify \/ InCrash \/ InHardware \/ UNCHANGED inVars
  PROVE  InInv'
<1>1. UNCHANGED <<inFirst, inValues, inBackup>>
  BY DEF InVerify, InCrash, InHardware, InStep, inVars
<1>2. inHardware' \in [devices : SUBSET IrqDevices, cpus : ProcessorCounts]
  BY DEF InVerify, InCrash, InHardware, InStep, inVars, InInv, InShape
<1>3. \/ inPc' = "idle" /\ (inLeft' = inLeft \/ inLeft' = <<>>)
      \/ UNCHANGED <<inPc, inBatch, inAt, inLeft>>
  BY DEF InVerify, InCrash, InHardware, InStep, inVars
<1>4. UNCHANGED inBatch => InBatch' = InBatch
  BY DEF InBatch
<1>5. InShape'
  BY <1>1, <1>2, <1>3, <1>4 DEF InInv, InShape
<1>6. RecordsOriginal'
  <2>1. <<>> \in Seq(InOriginals) /\ InOriginals' = InOriginals
    BY <1>1 DEF InOriginals
  <2> QED BY <1>1, <1>3, <2>1 DEF InInv, RecordsOriginal
<1>7. BatchRecorded' /\ PassedRecords' /\ InterruptRecoverable'
  BY <1>1, <1>3, <1>4 DEF InInv, BatchRecorded, PassedRecords, InterruptRecoverable
<1> QED BY <1>5, <1>6, <1>7 DEF InInv

LEMMA InRestoreInv == ASSUME InInv, InRestore PROVE InInv'
<1>1. /\ inPc' = "restore" /\ inAt' = Len(inBackup) /\ inLeft' = <<>>
      /\ UNCHANGED <<inHardware, inFirst, inChanged, inValues, inBackup, inBatch>>
  BY DEF InRestore, InStep
<1>2. Len(inBackup) \in Nat /\ DOMAIN inBackup = 1..Len(inBackup)
  BY DEF InInv, RecordsOriginal
<1>3. InShape'
  BY <1>1, <1>2 DEF InInv, InShape
<1>4. RecordsOriginal'
  <2>1. <<>> \in Seq(InOriginals) /\ InOriginals' = InOriginals
    BY <1>1 DEF InOriginals
  <2> QED BY <1>1, <2>1 DEF InInv, RecordsOriginal
<1>5. PassedRecords'
  BY <1>1, <1>2 DEF PassedRecords
<1>6. BatchRecorded' /\ InterruptRecoverable'
  BY <1>1 DEF InInv, BatchRecorded, InterruptRecoverable
<1> QED BY <1>3, <1>4, <1>5, <1>6 DEF InInv

LEMMA InRestoreEntryInv == ASSUME InInv, InRestoreEntry PROVE InInv'
<1>1. PICK e : e = inBackup[inAt]
  OBVIOUS
<1>2. /\ inPc = "restore" /\ inPc' = "restore" /\ inAt > 0 /\ inAt' = inAt - 1
      /\ UNCHANGED <<inHardware, inFirst, inChanged, inBackup, inBatch>>
      /\ \/ inValues' = [inValues EXCEPT ![e.slot] = e.value] /\ inLeft' = inLeft
         \/ inValues' = inValues /\ inLeft' = <<e>> \o inLeft
  BY <1>1 DEF InRestoreEntry, InStep, restore_interrupt_backup, write_interrupt_value
<1>3. /\ inAt \in 0..Len(inBackup) /\ Len(inBackup) \in Nat /\ DOMAIN inBackup = 1..Len(inBackup)
      /\ inAt \in DOMAIN inBackup
  BY <1>2 DEF InInv, InShape, RecordsOriginal
<1>4. /\ \A i \in DOMAIN inBackup : inBackup[i] \in InOriginals
      /\ e \in InOriginals
  BY <1>1, <1>3 DEF InInv, RecordsOriginal
<1>5. \A i \in DOMAIN inBackup : inBackup[i].slot \in Slots /\ inBackup[i].value = inFirst[inBackup[i].slot]
  BY <1>4 DEF InOriginals
<1>6. e.slot \in Slots /\ e.value = inFirst[e.slot]
  BY <1>4 DEF InOriginals
<1>7. inValues' \in [Slots -> InLevels]
  BY <1>2, <1>6 DEF InInv, InShape
<1>8. \A s \in Slots : inValues'[s] = inValues[s] \/ inValues'[s] = inFirst[s]
  BY <1>2, <1>6 DEF InInv, InShape
<1>9. InShape'
  BY <1>2, <1>3, <1>7 DEF InInv, InShape
<1>10. /\ inLeft' \in Seq(InOriginals)
       /\ \A j \in DOMAIN inLeft : \E k \in DOMAIN inLeft' : inLeft'[k] = inLeft[j]
       /\ inLeft' = inLeft \/ \E k \in DOMAIN inLeft' : inLeft'[k] = e
  <2>1. inLeft \in Seq(InOriginals) /\ Len(inLeft) \in Nat /\ DOMAIN inLeft = 1..Len(inLeft)
    BY DEF InInv, RecordsOriginal
  <2>2. CASE inLeft' = inLeft
    BY <2>1, <2>2
  <2>3. CASE inLeft' = <<e>> \o inLeft
    <3>1. <<e>> \in Seq(InOriginals) /\ Len(<<e>>) = 1 /\ <<e>>[1] = e
      BY <1>4
    <3>2. /\ inLeft' \in Seq(InOriginals) /\ Len(inLeft') = Len(inLeft) + 1 /\ inLeft'[1] = e
          /\ \A b \in 2..(Len(inLeft) + 1) : inLeft'[b] = inLeft[b - 1]
      BY <2>1, <2>3, <3>1, ConcatProperties
    <3>3. DOMAIN inLeft' = 1..(Len(inLeft) + 1) /\ 1 \in DOMAIN inLeft'
      BY <2>1, <3>2
    <3>4. ASSUME NEW j \in DOMAIN inLeft PROVE j + 1 \in DOMAIN inLeft' /\ inLeft'[j + 1] = inLeft[j]
      <4>1. j + 1 \in 2..(Len(inLeft) + 1) /\ (j + 1) - 1 = j
        BY <2>1
      <4> QED BY <2>1, <3>2, <3>3, <4>1
    <3> QED BY <3>2, <3>3, <3>4
  <2> QED BY <1>2, <2>2, <2>3
<1>11. RecordsOriginal'
  BY <1>2, <1>10 DEF InInv, RecordsOriginal, InOriginals
<1>12. PassedRecords'
  <2> SUFFICES ASSUME NEW i \in DOMAIN inBackup, i > inAt - 1
               PROVE  \/ \E j \in DOMAIN inLeft' : inLeft'[j] = inBackup[i]
                      \/ inValues'[inBackup[i].slot] = inFirst[inBackup[i].slot]
    BY <1>2 DEF PassedRecords
  <2>1. CASE i = inAt
    <3>1. CASE inLeft' = inLeft /\ inValues' = [inValues EXCEPT ![e.slot] = e.value]
      BY <1>1, <1>6, <2>1, <3>1 DEF InInv, InShape
    <3>2. CASE inLeft' = <<e>> \o inLeft
      <4>1. Len(<<e>> \o inLeft) # Len(inLeft)
        BY <1>4 DEF InInv, RecordsOriginal
      <4> QED BY <1>1, <1>10, <2>1, <3>2, <4>1
    <3> QED BY <1>2, <3>1, <3>2
  <2>2. CASE i > inAt
    <3>1. \/ \E j \in DOMAIN inLeft : inLeft[j] = inBackup[i]
          \/ inValues[inBackup[i].slot] = inFirst[inBackup[i].slot]
      BY <1>2, <2>2 DEF InInv, PassedRecords
    <3>2. CASE \E j \in DOMAIN inLeft : inLeft[j] = inBackup[i]
      BY <1>10, <3>2
    <3>3. CASE inValues[inBackup[i].slot] = inFirst[inBackup[i].slot]
      BY <1>5, <1>8, <3>3
    <3> QED BY <3>1, <3>2, <3>3
  <2> QED BY <1>3, <2>1, <2>2
<1>13. InterruptRecoverable'
  BY <1>2, <1>8 DEF InInv, InterruptRecoverable
<1>14. BatchRecorded'
  BY <1>2 DEF BatchRecorded
<1> QED BY <1>9, <1>11, <1>12, <1>13, <1>14 DEF InInv

LEMMA InCommitInv == ASSUME InInv, InCommit PROVE InInv'
<1>1. /\ inPc = "restore" /\ inPc' = "idle" /\ inAt = 0 /\ inBackup' = inLeft /\ inLeft' = <<>>
      /\ UNCHANGED <<inHardware, inFirst, inChanged, inValues, inBatch>>
  BY DEF InCommit, InStep
<1>2. InShape'
  BY <1>1 DEF InInv, InShape
<1>3. RecordsOriginal'
  <2>1. <<>> \in Seq(InOriginals) /\ InOriginals' = InOriginals
    BY <1>1 DEF InOriginals
  <2> QED BY <1>1, <2>1 DEF InInv, RecordsOriginal
<1>4. InterruptRecoverable'
  <2> SUFFICES ASSUME NEW s \in Slots, inValues[s] # inFirst[s]
               PROVE  \E j \in DOMAIN inLeft : inLeft[j] = [slot |-> s, value |-> inFirst[s]]
    BY <1>1 DEF InterruptRecoverable
  <2>1. PICK i \in DOMAIN inBackup : inBackup[i] = [slot |-> s, value |-> inFirst[s]]
    BY DEF InInv, InterruptRecoverable
  <2>2. i > inAt /\ inBackup[i].slot = s
    <3>1. inBackup[i].slot = s
      BY <2>1
    <3>2. DOMAIN inBackup = 1..Len(inBackup) /\ Len(inBackup) \in Nat
      BY DEF InInv, RecordsOriginal
    <3> QED BY <1>1, <3>1, <3>2
  <2> QED BY <1>1, <2>1, <2>2 DEF InInv, PassedRecords
<1>5. BatchRecorded' /\ PassedRecords'
  BY <1>1 DEF BatchRecorded, PassedRecords
<1> QED BY <1>2, <1>3, <1>4, <1>5 DEF InInv

-----------------------------------------------------------------------------
(* The invariant of the interrupt rows holds in every state: records hold   *)
(* first values, a batch is recorded before it is written, and a restore    *)
(* drops a record only when its value is back (interrupts.rs,               *)
(* backup/interrupt.rs, restore_matching).                                  *)
THEOREM InInvariant == InSpec => []InInv
<1>1. InInit => InInv
  BY InInitInv
<1>2. InInv /\ [InNext]_inVars => InInv'
  BY InInspectInv, InCaptureInv, InReobserveInv, InWriteInv, InEndInv, InRestoreInv,
     InRestoreEntryInv, InCommitInv DEF InNext
<1> QED BY <1>1, <1>2, PTL DEF InSpec

(* For any devices, processors and number of hardware changes, every        *)
(* interrupt value that differs from the machine's first one has a record   *)
(* of that first value (capture_interrupt_backups, push_first_value).       *)
THEOREM InterruptsRecoverable == InSpec => []InterruptRecoverable
<1>1. InInv => InterruptRecoverable
  BY DEF InInv
<1> QED BY <1>1, InInvariant, PTL

-----------------------------------------------------------------------------
(* The system rows: the records of a batch. *)

(* The recursive function of sy_push_all exists and does what it says.        *)
LEMMA SyPushedFunction ==
  ASSUME NEW entries, NEW new, Len(new) \in Nat
  PROVE  \E f : /\ f = [k \in 0..Len(new) |->
                          IF k = 0 THEN entries ELSE sy_push_first_value(f[k - 1], new[k])]
                /\ sy_push_all(entries, new) = f[Len(new)]
<1> DEFINE Def(f, n) == f = [k \in 0..n |->
                               IF k = 0 THEN entries ELSE sy_push_first_value(f[k - 1], new[k])]
           S == {n \in Nat : \E f : Def(f, n)}
<1>1. 0 \in S
  <2>1. Def([k \in 0..0 |-> entries], 0)
    OBVIOUS
  <2> QED BY <2>1
<1>2. ASSUME NEW n \in Nat, n \in S PROVE n + 1 \in S
  <2>1. PICK f : Def(f, n)
    BY <1>2
  <2>2. PICK g : g = [k \in 0..(n + 1) |->
                        IF k <= n THEN f[k] ELSE sy_push_first_value(f[n], new[n + 1])]
    OBVIOUS
  <2>3. ASSUME NEW k \in 0..(n + 1)
        PROVE  g[k] = IF k = 0 THEN entries ELSE sy_push_first_value(g[k - 1], new[k])
    <3>1. CASE k = 0
      BY <2>1, <2>2, <3>1
    <3>2. CASE k # 0 /\ k <= n
      <4>1. k \in 0..n /\ k - 1 \in 0..n /\ k - 1 \in 0..(n + 1) /\ k - 1 <= n
        BY <3>2
      <4>2. g[k] = f[k] /\ g[k - 1] = f[k - 1]
        BY <2>2, <3>2, <4>1
      <4>3. f[k] = sy_push_first_value(f[k - 1], new[k])
        BY <2>1, <3>2, <4>1
      <4> QED BY <3>2, <4>2, <4>3
    <3>3. CASE k = n + 1
      <4>1. k # 0 /\ ~(k <= n) /\ k - 1 = n /\ n \in 0..(n + 1)
        BY <3>3
      <4>2. g[k] = sy_push_first_value(f[n], new[n + 1]) /\ g[n] = f[n]
        BY <2>2, <4>1
      <4> QED BY <3>3, <4>1, <4>2
    <3> QED BY <3>1, <3>2, <3>3
  <2>4. g = [k \in 0..(n + 1) |-> g[k]]
    BY <2>2
  <2>5. Def(g, n + 1)
    BY <2>3, <2>4
  <2> QED BY <2>5
<1>3. \E f : Def(f, Len(new))
  <2>1. Nat \subseteq S
    <3> HIDE DEF S
    <3> QED BY <1>1, <1>2, SetInduction
  <2> QED BY <2>1
<1>4. PICK f : f = (CHOOSE g : Def(g, Len(new)))
  OBVIOUS
<1>5. Def(f, Len(new))
  BY <1>3, <1>4
<1>6. sy_push_all(entries, new) = f[Len(new)]
  BY <1>4 DEF sy_push_all
<1> QED BY <1>5, <1>6

(* What a list of records is after those of new up to the k-th were pushed. *)
SyPushed(E, entries, new, k, list) ==
  /\ list \in Seq(E)
  /\ \A i \in DOMAIN entries : \E j \in DOMAIN list : list[j] = entries[i]
  /\ \A i \in 1..k : \E j \in DOMAIN list : SameIdentity(list[j], new[i])
  /\ \A j \in DOMAIN list :
       \/ \E i \in DOMAIN entries : list[j] = entries[i]
       \/ \E i \in 1..k : list[j] = new[i] /\ \A m \in DOMAIN entries : ~SameIdentity(entries[m], new[i])

LEMMA SyPushOne ==
  ASSUME NEW E, NEW entries \in Seq(E), NEW new \in Seq(E), NEW k \in Nat, k + 1 \in DOMAIN new,
         NEW list, SyPushed(E, entries, new, k, list)
  PROVE  SyPushed(E, entries, new, k + 1, sy_push_first_value(list, new[k + 1]))
<1>1. PICK e \in E : e = new[k + 1]
  OBVIOUS
<1>2. PICK after : after = sy_push_first_value(list, e)
  OBVIOUS
<1>3. list \in Seq(E) /\ Len(list) \in Nat /\ DOMAIN list = 1..Len(list)
  BY DEF SyPushed
<1>4. \A i \in 1..(k + 1) : i \in 1..k \/ i = k + 1
  OBVIOUS
<1>5. CASE \E j \in DOMAIN list : SameIdentity(list[j], e)
  <2>1. after = list
    BY <1>2, <1>5 DEF sy_push_first_value
  <2>2. \A i \in 1..(k + 1) : \E j \in DOMAIN list : SameIdentity(list[j], new[i])
    BY <1>1, <1>4, <1>5 DEF SyPushed
  <2>3. \A i \in 1..k : i \in 1..(k + 1)
    OBVIOUS
  <2>4. SyPushed(E, entries, new, k + 1, list)
    BY <2>2, <2>3 DEF SyPushed
  <2> QED BY <1>1, <1>2, <2>1, <2>4
<1>6. CASE ~\E j \in DOMAIN list : SameIdentity(list[j], e)
  <2>1. after = Append(list, e)
    BY <1>2, <1>6 DEF sy_push_first_value
  <2>2. /\ after \in Seq(E) /\ DOMAIN after = 1..(Len(list) + 1)
        /\ after[Len(list) + 1] = e /\ \A j \in DOMAIN list : j \in DOMAIN after /\ after[j] = list[j]
        /\ \A j \in DOMAIN after : j \in DOMAIN list \/ j = Len(list) + 1
    BY <1>3, <2>1
  <2>3. \A i \in DOMAIN entries : \E j \in DOMAIN after : after[j] = entries[i]
    BY <2>2 DEF SyPushed
  <2>4. ASSUME NEW i \in 1..(k + 1) PROVE \E j \in DOMAIN after : SameIdentity(after[j], new[i])
    <3>1. CASE i \in 1..k
      BY <2>2, <3>1 DEF SyPushed
    <3>2. CASE i = k + 1
      <4>1. Len(list) + 1 \in DOMAIN after
        BY <1>3, <2>2
      <4> QED BY <1>1, <2>2, <3>2, <4>1 DEF SameIdentity
    <3> QED BY <1>4, <3>1, <3>2
  <2>5. \A m \in DOMAIN entries : ~SameIdentity(entries[m], e)
    BY <1>6 DEF SyPushed
  <2>6. ASSUME NEW j \in DOMAIN after
        PROVE  \/ \E i \in DOMAIN entries : after[j] = entries[i]
               \/ \E i \in 1..(k + 1) :
                    after[j] = new[i] /\ \A m \in DOMAIN entries : ~SameIdentity(entries[m], new[i])
    <3>1. CASE j \in DOMAIN list
      <4>1. \A i \in 1..k : i \in 1..(k + 1)
        OBVIOUS
      <4>2. after[j] = list[j]
        BY <2>2, <3>1
      <4>3. \/ \E i \in DOMAIN entries : list[j] = entries[i]
            \/ \E i \in 1..k :
                 list[j] = new[i] /\ \A m \in DOMAIN entries : ~SameIdentity(entries[m], new[i])
        BY <3>1 DEF SyPushed
      <4> QED BY <4>1, <4>2, <4>3
    <3>2. CASE j = Len(list) + 1
      <4>1. k + 1 \in 1..(k + 1)
        OBVIOUS
      <4> QED BY <1>1, <2>2, <2>5, <3>2, <4>1
    <3> QED BY <2>2, <3>1, <3>2
  <2>7. SyPushed(E, entries, new, k + 1, after)
    BY <2>2, <2>3, <2>4, <2>6 DEF SyPushed
  <2> QED BY <1>1, <1>2, <2>7
<1> QED BY <1>5, <1>6

LEMMA SyPushAll ==
  ASSUME NEW E, NEW entries \in Seq(E), NEW new \in Seq(E)
  PROVE  SyPushed(E, entries, new, Len(new), sy_push_all(entries, new))
<1>1. Len(new) \in Nat /\ DOMAIN new = 1..Len(new)
  OBVIOUS
<1>2. PICK f : /\ f = [k \in 0..Len(new) |->
                         IF k = 0 THEN entries ELSE sy_push_first_value(f[k - 1], new[k])]
               /\ sy_push_all(entries, new) = f[Len(new)]
  BY <1>1, SyPushedFunction
<1> DEFINE S == {k \in Nat : k <= Len(new) => SyPushed(E, entries, new, k, f[k])}
<1>3. 0 \in S
  <2>1. f[0] = entries
    BY <1>1, <1>2
  <2>2. 1..0 = {}
    OBVIOUS
  <2>3. SyPushed(E, entries, new, 0, entries)
    BY <2>2 DEF SyPushed
  <2> QED BY <2>1, <2>3
<1>4. ASSUME NEW n \in Nat, n \in S PROVE n + 1 \in S
  <2> SUFFICES ASSUME n + 1 <= Len(new) PROVE SyPushed(E, entries, new, n + 1, f[n + 1])
    OBVIOUS
  <2>1. n <= Len(new) /\ n + 1 \in DOMAIN new /\ n + 1 \in 0..Len(new) /\ n + 1 # 0 /\ (n + 1) - 1 = n
    BY <1>1
  <2>2. SyPushed(E, entries, new, n, f[n])
    BY <1>4, <2>1
  <2>3. f[n + 1] = sy_push_first_value(f[n], new[n + 1])
    BY <1>2, <2>1
  <2> QED BY <2>1, <2>2, <2>3, SyPushOne
<1>5. Nat \subseteq S
  <2> HIDE DEF S
  <2> QED BY <1>3, <1>4, SetInduction
<1>6. SyPushed(E, entries, new, Len(new), f[Len(new)])
  BY <1>1, <1>5
<1> QED BY <1>2, <1>6

-----------------------------------------------------------------------------
(* What entries and machines are made of.                                  *)

LEMMA EntryOfKind ==
  ASSUME NEW e \in SyEntries
  PROVE  /\ e.kind \in SyKinds \cup {"registry"}
         /\ e.kind = "registry" => e.value \in RegValues /\ e.original \in SyContents
         /\ e.kind = "service" =>
              e.original \in [start : {"Automatic", "Disabled"}, delayed : BOOLEAN,
                              status : {"Running", "Stopped"}]
         /\ e.kind = "task" => e.original \in {"absent", "enabled", "disabled"}
         /\ e.kind = "tick" => e.original \in {"absent", "yes", "no"}
         /\ e.kind = "hags" => e.original \in {NoData, Data("DWord", 1)}
<1>1. CASE e \in [kind : {"registry"}, row : {"P1:30", "batch"}, value : RegValues, original : SyContents]
  BY <1>1
<1>2. CASE e \in [kind : {"service"}, original : [start : {"Automatic", "Disabled"}, delayed : BOOLEAN,
                                                  status : {"Running", "Stopped"}]]
  BY <1>2 DEF SyKinds
<1>3. CASE e \in [kind : {"plan"}, upper : SUBSET {"user", "suite"}]
  BY <1>3 DEF SyKinds
<1>4. CASE e \in [kind : {"task"}, original : {"absent", "enabled", "disabled"}]
  BY <1>4 DEF SyKinds
<1>5. CASE e \in [kind : {"tick"}, original : {"absent", "yes", "no"}]
  BY <1>5 DEF SyKinds
<1>6. CASE e \in [kind : {"hags"}, original : {NoData, Data("DWord", 1)}, pending : BOOLEAN]
  BY <1>6 DEF SyKinds
<1> QED BY <1>1, <1>2, <1>3, <1>4, <1>5, <1>6 DEF SyEntries, SyRecords

LEMMA ContentsType ==
  /\ NoData \in SyContents /\ \A v \in RegValues : RowTarget(v) \in SyContents
  /\ SyMachines # {} => \A m \in SyMachines, v \in RegValues : m.values[v] \in SyContents
<1>1. NoData \in SyContents /\ \A v \in RegValues : RowTarget(v) \in SyContents
  BY DEF SyContents, RegContents
<1>2. \A m \in SyMachines, v \in RegValues : m.values[v] \in SyContents
  BY DEF SyMachines
<1> QED BY <1>1, <1>2

LEMMA Prepended ==
  ASSUME NEW E, NEW e \in E, NEW s \in Seq(E), NEW r, r = <<e>> \o s
  PROVE  /\ r \in Seq(E) /\ 1 \in DOMAIN r /\ r[1] = e
         /\ \A n \in DOMAIN s : n + 1 \in DOMAIN r /\ r[n + 1] = s[n]
         /\ \A n \in DOMAIN r : r[n] = e \/ (n - 1 \in DOMAIN s /\ r[n] = s[n - 1])
<1>2. <<e>> \in Seq(E) /\ Len(<<e>>) = 1 /\ <<e>>[1] = e /\ Len(s) \in Nat /\ DOMAIN s = 1..Len(s)
  OBVIOUS
<1>3. /\ r \in Seq(E) /\ Len(r) = 1 + Len(s)
      /\ \A n \in 1..(1 + Len(s)) : r[n] = IF n <= 1 THEN <<e>>[n] ELSE s[n - 1]
  BY <1>2, ConcatProperties
<1>4. DOMAIN r = 1..(1 + Len(s))
  BY <1>3
<1>5. 1 \in DOMAIN r /\ r[1] = e
  BY <1>2, <1>3, <1>4
<1>6. \A n \in DOMAIN s : n + 1 \in DOMAIN r /\ r[n + 1] = s[n]
  BY <1>2, <1>3, <1>4
<1>7. \A n \in DOMAIN r : r[n] = e \/ (n - 1 \in DOMAIN s /\ r[n] = s[n - 1])
  BY <1>2, <1>3, <1>4, <1>5
<1> QED BY <1>3, <1>5, <1>6, <1>7

(* A step of a restore that only brings things back, and that passes an    *)
(* entry as restored only when what it is about is back, keeps SyInv.      *)
LEMMA RestoreFrame ==
  ASSUME SyInv, syEvents = 0, SyKeep, syPc \in RestorePcs, syAt # 0, NEW e, e = SyEntry,
         syNow' \in SyMachines,
         \A v \in RegValues : ValueBack(v) => ValueBack(v)',
         \A kind \in SyKinds : ThingBack(kind) => ThingBack(kind)',
         \/ /\ UNCHANGED <<syAt, syRun>>
            /\ \/ syPc' \in {"delayed", "status", "readback"} /\ e.kind = "service"
               \/ syPc' = "deleteplan" /\ e.kind = "plan" /\ syNow'.active = "user"
         \/ /\ syPc' = "restore" /\ syAt' = syAt - 1
            /\ (syRun' = syRun /\ EntryBack(e)') \/ syRun' = <<e>> \o syRun
  PROVE  SyInv'
<1> USE DEF SyKeep
<1>1. SyShape /\ EntriesTrue /\ Recorded /\ RowJournaled /\ EntriesPassed
  BY DEF SyInv
<1>2. /\ syBackup \in Seq(SyEntries) /\ syRun \in Seq(SyEntries) /\ syAt \in 0..Len(syBackup)
      /\ Len(syBackup) \in Nat /\ DOMAIN syBackup = 1..Len(syBackup) /\ DOMAIN syRun = 1..Len(syRun)
  BY <1>1 DEF SyShape
<1>3. syAt \in DOMAIN syBackup /\ e \in SyEntries /\ e = syBackup[syAt]
  BY <1>2 DEF SyEntry
<1>4. ASSUME NEW d \in SyEntries, EntryBack(d) PROVE EntryBack(d)'
  BY <1>4, EntryOfKind DEF EntryBack
<1>5. /\ syRun' \in Seq(SyEntries)
      /\ \A n \in DOMAIN syRun : \E j \in DOMAIN syRun' : syRun'[j] = syRun[n]
      /\ \A n \in DOMAIN syRun' : syRun'[n] = e \/ \E j \in DOMAIN syRun : syRun'[n] = syRun[j]
  <2>1. CASE syRun' = syRun
    BY <1>2, <2>1
  <2>2. CASE syRun' = <<e>> \o syRun
    <3>1. /\ syRun' \in Seq(SyEntries)
          /\ \A n \in DOMAIN syRun : n + 1 \in DOMAIN syRun' /\ syRun'[n + 1] = syRun[n]
          /\ \A n \in DOMAIN syRun' : syRun'[n] = e \/ (n - 1 \in DOMAIN syRun /\ syRun'[n] = syRun[n - 1])
      <4>1. PICK r, q : r = syRun' /\ q = syRun
        OBVIOUS
      <4>2. q \in Seq(SyEntries) /\ r = <<e>> \o q
        BY <1>2, <2>2, <4>1
      <4>3. /\ r \in Seq(SyEntries)
            /\ \A n \in DOMAIN q : n + 1 \in DOMAIN r /\ r[n + 1] = q[n]
            /\ \A n \in DOMAIN r : r[n] = e \/ (n - 1 \in DOMAIN q /\ r[n] = q[n - 1])
        BY <1>3, <4>2, Prepended
      <4> QED BY <4>1, <4>3
    <3> QED BY <3>1
  <2> QED BY <2>1, <2>2
<1>6. /\ syPc' \in RestorePcs /\ syAt' \in 0..Len(syBackup') /\ (syPc' # "restore" => syAt' = syAt /\ syAt' # 0)
  BY <1>2 DEF RestorePcs
<1>7. SyShape'
  <2>1. syPc' \in {"delayed", "status", "readback"} => SyEntry'.kind = "service"
    BY <1>3 DEF SyEntry
  <2>2. syPc' = "deleteplan" => SyEntry'.kind = "plan" /\ syNow'.active = "user"
    BY <1>3 DEF SyEntry
  <2>3. syPc' \notin {"idle", "journal", "bind", "write"}
    BY <1>6 DEF RestorePcs
  <2>4. syFirst' \in SyMachines /\ syThere' = TRUE /\ syBackup' \in Seq(SyEntries)
    BY <1>1 DEF SyShape
  <2> QED BY <1>5, <1>6, <2>1, <2>2, <2>3, <2>4 DEF SyShape
<1>8. EntriesTrue'
  <2>1. \A d : EntryTrue(d) => EntryTrue(d)'
    BY DEF EntryTrue
  <2>2. EntryTrue(e)
    BY <1>1, <1>3 DEF EntriesTrue
  <2>3. \A n \in DOMAIN syRun' : EntryTrue(syRun'[n])
    BY <1>1, <1>5, <2>2 DEF EntriesTrue
  <2>4. \A n \in DOMAIN syRun' : EntryTrue(syRun[n])'
    BY <2>3 DEF EntryTrue
  <2>5. \A n \in DOMAIN syBackup' : EntryTrue(syBackup[n])'
    BY <1>1 DEF EntriesTrue, EntryTrue
  <2> QED BY <2>4, <2>5 DEF EntriesTrue
<1>9. Recorded'
  <2>1. \A v \in RegValues : ValueRecorded(v) => ValueRecorded(v)'
    BY DEF ValueRecorded
  <2>2. \A kind \in SyKinds : ThingRecorded(kind) => ThingRecorded(kind)'
    BY DEF ThingRecorded
  <2> QED BY <1>1, <2>1, <2>2 DEF Recorded
<1>10. RowJournaled'
  BY <1>6 DEF RowJournaled, RestorePcs
<1>11. EntriesPassed'
  <2> SUFFICES ASSUME NEW i \in DOMAIN syBackup, i > syAt'
               PROVE  (\E j \in DOMAIN syRun' : syRun'[j] = syBackup[i]) \/ EntryBack(syBackup[i])'
    BY DEF EntriesPassed
  <2>0. PICK d \in SyEntries : d = syBackup[i]
    BY <1>2
  <2>1. CASE i > syAt
    <3>1. (\E j \in DOMAIN syRun : syRun[j] = d) \/ EntryBack(d)
      BY <1>1, <2>0, <2>1 DEF EntriesPassed
    <3>2. (\E j \in DOMAIN syRun' : syRun'[j] = d) \/ EntryBack(d)'
      BY <1>4, <1>5, <3>1
    <3>3. EntryBack(d)' => EntryBack(syBackup[i])'
      BY <2>0
    <3> QED BY <2>0, <3>2, <3>3
  <2>2. CASE ~(i > syAt)
    <3>1. /\ i = syAt /\ syAt' = syAt - 1
          /\ (syRun' = syRun /\ EntryBack(e)') \/ syRun' = <<e>> \o syRun
      BY <1>2, <2>2
    <3>2. i = syAt
      BY <1>2, <2>2, <3>1
    <3>3. CASE EntryBack(e)'
      BY <1>3, <3>2, <3>3
    <3>4. CASE syRun' = <<e>> \o syRun
      <4>1. 1 \in DOMAIN syRun' /\ syRun'[1] = e
        <5>1. PICK r, q : r = syRun' /\ q = syRun
          OBVIOUS
        <5>2. q \in Seq(SyEntries) /\ r = <<e>> \o q
          BY <1>2, <3>4, <5>1
        <5>3. 1 \in DOMAIN r /\ r[1] = e
          BY <1>3, <5>2, Prepended
        <5> QED BY <5>1, <5>3
      <4> QED BY <1>3, <3>2, <4>1
    <3> QED BY <3>1, <3>3, <3>4
  <2> QED BY <2>1, <2>2
<1> QED BY <1>7, <1>8, <1>9, <1>10, <1>11 DEF SyInv

-----------------------------------------------------------------------------
(* The steps of a restore.                                                 *)

LEMMA RestoreFacts ==
  ASSUME SyInv, syEvents = 0, syPc \in RestorePcs, syAt # 0
  PROVE  /\ SyEntry \in SyEntries /\ EntryTrue(SyEntry)
         /\ syNow \in SyMachines /\ syFirst \in SyMachines /\ syThere = TRUE
         /\ syAt > 0
<1>1. SyShape /\ EntriesTrue
  BY DEF SyInv
<1>2. /\ syBackup \in Seq(SyEntries) /\ syAt \in 0..Len(syBackup)
      /\ Len(syBackup) \in Nat /\ DOMAIN syBackup = 1..Len(syBackup)
  BY <1>1 DEF SyShape
<1>3. syAt \in DOMAIN syBackup
  BY <1>2
<1> QED BY <1>1, <1>2, <1>3 DEF SyShape, EntriesTrue, SyEntry

LEMMA RegistryRestored ==
  ASSUME SyInv, syEvents = 0, restore_registry PROVE SyInv'
<1>1. PICK e : e = SyEntry
  OBVIOUS
<1>2. /\ syPc \in RestorePcs /\ syAt # 0 /\ e.kind = "registry" /\ SyKeep
  BY <1>1, RestoreFacts DEF restore_registry, AtEntry, RestorePcs
<1>3. /\ e \in SyEntries /\ EntryTrue(e) /\ syNow \in SyMachines /\ syFirst \in SyMachines
  BY <1>1, <1>2, RestoreFacts
<1>4. e.value \in RegValues /\ e.original \in SyContents
  BY <1>2, <1>3, EntryOfKind
<1>5. /\ syPc' = "restore" /\ syAt' = syAt - 1
      /\ \/ syRun' = <<e>> \o syRun /\ syNow' = syNow
         \/ /\ syRun' = syRun \/ syRun' = <<e>> \o syRun
            /\ syNow' = [syNow EXCEPT !.values[e.value] = e.original]
  BY <1>1 DEF restore_registry, SyAttempt, SyEnds, registry_write
<1>6. syFirst' = syFirst /\ syLost' = syLost
  BY <1>2 DEF SyKeep
<1>7. CASE syRun' = <<e>> \o syRun /\ syNow' = syNow
  <2>1. /\ \A v \in RegValues : ValueBack(v) => ValueBack(v)'
        /\ \A kind \in SyKinds : ThingBack(kind) => ThingBack(kind)'
    BY <1>6, <1>7 DEF ValueBack, ThingBack
  <2> QED BY <1>1, <1>2, <1>3, <1>5, <1>7, <2>1, RestoreFrame
<1>8. CASE syNow' = [syNow EXCEPT !.values[e.value] = e.original]
  <2>1. /\ \A v \in RegValues : syNow'.values[v] = IF v = e.value THEN e.original ELSE syNow.values[v]
        /\ syNow' \in SyMachines
    BY <1>3, <1>4, <1>8 DEF SyMachines
  <2>2. /\ syNow'.service = syNow.service /\ syNow'.active = syNow.active /\ syNow'.task = syNow.task
        /\ syNow'.tick = syNow.tick /\ syNow'.hags = syNow.hags
    BY <1>3, <1>8 DEF SyMachines
  <2>3. ValueBack(e.value)'
    BY <1>2, <1>3, <1>4, <1>6, <2>1 DEF EntryTrue, ValueBack
  <2>4. ASSUME NEW v \in RegValues, ValueBack(v) PROVE ValueBack(v)'
    BY <1>6, <2>1, <2>3, <2>4 DEF ValueBack
  <2>5. \A kind \in SyKinds : ThingBack(kind) => ThingBack(kind)'
    BY <1>6, <2>2 DEF ThingBack
  <2>6. EntryBack(e)'
    BY <1>2, <2>3 DEF EntryBack
  <2> QED BY <1>1, <1>2, <1>5, <2>1, <2>4, <2>5, <2>6, RestoreFrame
<1> QED BY <1>5, <1>7, <1>8

(* A step that leaves the registry values alone.                           *)
LEMMA ThingFrame ==
  ASSUME SyInv, syEvents = 0, SyKeep, syPc \in RestorePcs, syAt # 0, NEW e, e = SyEntry,
         e.kind # "registry", syNow' \in SyMachines, syNow'.values = syNow.values,
         syNow.service = syFirst.service => syNow'.service = syFirst.service,
         syNow.active = syFirst.active => syNow'.active = syFirst.active,
         syNow.task = syFirst.task => syNow'.task = syFirst.task,
         syNow.tick = syFirst.tick => syNow'.tick = syFirst.tick,
         syNow.hags = syFirst.hags => syNow'.hags = syFirst.hags,
         \/ /\ UNCHANGED <<syAt, syRun>>
            /\ \/ syPc' \in {"delayed", "status", "readback"} /\ e.kind = "service"
               \/ syPc' = "deleteplan" /\ e.kind = "plan" /\ syNow'.active = "user"
         \/ /\ syPc' = "restore" /\ syAt' = syAt - 1
            /\ (syRun' = syRun /\ ThingBack(e.kind)') \/ syRun' = <<e>> \o syRun
  PROVE  SyInv'
<1>1. syFirst' = syFirst /\ syLost' = syLost
  BY DEF SyKeep
<1>2. \A v \in RegValues : ValueBack(v) => ValueBack(v)'
  BY <1>1 DEF ValueBack
<1>3. \A kind \in SyKinds : ThingBack(kind) => ThingBack(kind)'
  BY <1>1 DEF ThingBack
<1>4. ThingBack(e.kind)' => EntryBack(e)'
  BY DEF EntryBack
<1> QED BY <1>2, <1>3, <1>4, RestoreFrame

LEMMA ServiceRestored ==
  ASSUME SyInv, syEvents = 0, restore_service \/ configure_delayed_auto_start \/ wait_for_state \/ query_config
  PROVE  SyInv'
<1>1. PICK e : e = SyEntry
  OBVIOUS
<1>2. /\ syPc \in RestorePcs /\ syAt # 0 /\ e.kind = "service" /\ SyKeep
      /\ syPc \in {"restore", "delayed", "status", "readback"}
  <2>1. CASE configure_delayed_auto_start
    BY <1>1, <2>1 DEF configure_delayed_auto_start, AtEntry, RestorePcs
  <2>2. CASE restore_service
    BY <1>1, <2>2 DEF restore_service, AtEntry, RestorePcs
  <2>3. CASE wait_for_state
    BY <1>1, <2>3 DEF wait_for_state, AtEntry, RestorePcs
  <2>4. CASE query_config
    BY <1>1, <2>4 DEF query_config, AtEntry, RestorePcs
  <2> QED BY <2>1, <2>2, <2>3, <2>4
<1>3. /\ e \in SyEntries /\ EntryTrue(e) /\ syNow \in SyMachines /\ syFirst \in SyMachines
  BY <1>1, <1>2, RestoreFacts
<1>4. PICK o \in [start : {"Automatic", "Disabled"}, delayed : BOOLEAN, status : {"Running", "Stopped"}] :
        o = e.original
  BY <1>2, <1>3, EntryOfKind
<1>5. syFirst.service = [present |-> TRUE, start |-> o.start, delayed |-> o.delayed, status |-> o.status]
  BY <1>2, <1>3, <1>4 DEF EntryTrue, Service
<1>6. \/ syNow' = syNow \/ syNow' = [syNow EXCEPT !.service.start = o.start]
      \/ syNow' = [syNow EXCEPT !.service.delayed = o.delayed]
      \/ syNow' = [syNow EXCEPT !.service.status = o.status]
  <2>1. CASE restore_service
    BY <1>1, <1>4, <2>1 DEF restore_service
  <2>2. CASE configure_delayed_auto_start
    BY <1>1, <1>4, <2>2 DEF configure_delayed_auto_start
  <2>3. CASE wait_for_state
    BY <1>1, <1>4, <2>3 DEF wait_for_state
  <2>4. CASE query_config
    BY <2>4 DEF query_config, SyAttempt
  <2> QED BY <2>1, <2>2, <2>3, <2>4
<1>7. /\ syNow' \in SyMachines /\ syNow'.values = syNow.values /\ syNow'.active = syNow.active
      /\ syNow'.task = syNow.task /\ syNow'.tick = syNow.tick /\ syNow'.hags = syNow.hags
      /\ syNow.service = syFirst.service => syNow'.service = syFirst.service
  <2>1. PICK s : s = syNow.service
    OBVIOUS
  <2>2. s \in [present : BOOLEAN, start : {"Automatic", "Manual", "Disabled"}, delayed : BOOLEAN,
               status : {"Running", "Stopped"}]
    BY <1>3, <2>1 DEF SyMachines
  <2>3. PICK t \in {s, [s EXCEPT !.start = o.start], [s EXCEPT !.delayed = o.delayed], [s EXCEPT !.status = o.status]} :
          syNow' = [syNow EXCEPT !.service = t]
    <3>1. CASE syNow' = syNow
      <4>1. syNow' = [syNow EXCEPT !.service = s]
        BY <1>3, <2>1, <3>1 DEF SyMachines
      <4> QED BY <4>1
    <3>2. CASE syNow' # syNow
      BY <1>6, <2>1, <3>2
    <3> QED BY <3>1, <3>2
  <2>4. t \in [present : BOOLEAN, start : {"Automatic", "Manual", "Disabled"}, delayed : BOOLEAN,
               status : {"Running", "Stopped"}]
    BY <2>2, <2>3
  <2>5. s = syFirst.service => t = syFirst.service
    BY <1>5, <2>2, <2>3
  <2>6. syNow' \in SyMachines /\ syNow'.service = t
    BY <1>3, <2>3, <2>4 DEF SyMachines
  <2>7. /\ syNow'.values = syNow.values /\ syNow'.active = syNow.active
        /\ syNow'.task = syNow.task /\ syNow'.tick = syNow.tick /\ syNow'.hags = syNow.hags
    BY <1>3, <2>3 DEF SyMachines
  <2> QED BY <2>1, <2>5, <2>6, <2>7
<1>8. \/ /\ UNCHANGED <<syAt, syRun>> /\ syPc' \in {"delayed", "status", "readback"}
      \/ /\ syPc' = "restore" /\ syAt' = syAt - 1
         /\ (syRun' = syRun /\ ThingBack(e.kind)') \/ syRun' = <<e>> \o syRun
  <2>1. CASE restore_service
    BY <1>1, <2>1 DEF restore_service, SyEnds
  <2>2. CASE configure_delayed_auto_start
    BY <1>1, <2>2 DEF configure_delayed_auto_start, SyEnds
  <2>3. CASE wait_for_state
    BY <1>1, <2>3 DEF wait_for_state, SyEnds
  <2>4. CASE query_config
    <3>1. /\ syPc' = "restore" /\ syAt' = syAt - 1 /\ syNow' = syNow
          /\ (syRun' = syRun /\ syNow.service = syFirst.service) \/ syRun' = <<e>> \o syRun
      BY <1>1, <1>4, <1>5, <2>4 DEF query_config, SyAttempt, SyEnds, Service
    <3>2. syNow.service = syFirst.service /\ syNow' = syNow => ThingBack(e.kind)'
      BY <1>2 DEF SyKeep, ThingBack
    <3> QED BY <3>1, <3>2
  <2> QED BY <2>1, <2>2, <2>3, <2>4
<1> QED BY <1>1, <1>2, <1>7, <1>8, ThingFrame

LEMMA PlanRestored ==
  ASSUME SyInv, syEvents = 0, restore_power_plan \/ SyDeletePlan
  PROVE  SyInv'
<1>1. PICK e : e = SyEntry
  OBVIOUS
<1>2. syPc \in RestorePcs /\ syAt # 0 /\ e.kind = "plan" /\ SyKeep
  <2>1. CASE restore_power_plan
    BY <1>1, <2>1 DEF restore_power_plan, AtEntry, RestorePcs
  <2>2. CASE SyDeletePlan
    BY <1>1, <2>2 DEF SyDeletePlan, AtEntry, RestorePcs
  <2> QED BY <2>1, <2>2
<1>3. /\ e \in SyEntries /\ EntryTrue(e) /\ syNow \in SyMachines /\ syFirst \in SyMachines
  BY <1>1, <1>2, RestoreFacts
<1>4. syFirst.active = "user"
  BY <1>2, <1>3 DEF EntryTrue
<1>5. CASE restore_power_plan
  <2>1. \/ /\ UNCHANGED <<syAt, syRun>> /\ syPc' = "deleteplan"
           /\ syNow' = [syNow EXCEPT !.active = "user"]
        \/ /\ syPc' = "restore" /\ syAt' = syAt - 1 /\ syRun' = <<e>> \o syRun
           /\ syNow' = syNow \/ syNow' = [syNow EXCEPT !.active = "user"]
    BY <1>1, <1>5 DEF restore_power_plan, SyEnds
  <2>2. CASE syNow' = [syNow EXCEPT !.active = "user"]
    <3>1. syNow' \in SyMachines /\ syNow'.values = syNow.values /\ syNow'.active = "user"
      BY <1>3, <2>2 DEF SyMachines
    <3>2. /\ syNow'.service = syNow.service /\ syNow'.task = syNow.task
          /\ syNow'.tick = syNow.tick /\ syNow'.hags = syNow.hags
      BY <1>3, <2>2 DEF SyMachines
    <3> QED BY <1>1, <1>2, <1>4, <2>1, <3>1, <3>2, ThingFrame
  <2>3. CASE syNow' = syNow /\ syPc' = "restore" /\ syAt' = syAt - 1 /\ syRun' = <<e>> \o syRun
    BY <1>1, <1>2, <1>3, <2>3, ThingFrame
  <2> QED BY <2>1, <2>2, <2>3
<1>6. CASE SyDeletePlan
  <2>1. syNow.active = "user"
    BY <1>6 DEF SyDeletePlan, AtEntry, SyInv, SyShape
  <2>2. syNow' = syNow \/ syNow' = [syNow EXCEPT !.plans = Restrict(syNow.plans, {"user"})]
    BY <1>6 DEF SyDeletePlan, SyAttempt
  <2>3. /\ syNow' \in SyMachines /\ syNow'.values = syNow.values /\ syNow'.active = syNow.active
        /\ syNow'.service = syNow.service /\ syNow'.task = syNow.task
        /\ syNow'.tick = syNow.tick /\ syNow'.hags = syNow.hags
    <3>1. CASE syNow' = syNow
      BY <1>3, <3>1
    <3>2. CASE syNow' = [syNow EXCEPT !.plans = Restrict(syNow.plans, {"user"})]
      <4>1. Restrict(syNow.plans, {"user"}) \in [{"user"} -> {SUITE_POWER_PLAN_NAME, "Balanced"}]
        <5>1. PICK D \in {{"user"}, {"user", "suite"}} :
                syNow.plans \in [D -> {SUITE_POWER_PLAN_NAME, "Balanced"}]
          BY <1>3 DEF SyMachines
        <5>2. "user" \in D
          OBVIOUS
        <5> QED BY <5>1, <5>2 DEF Restrict
      <4> QED BY <1>3, <3>2, <4>1 DEF SyMachines
    <3> QED BY <2>2, <3>1, <3>2
  <2>4. syPc' = "restore" /\ syAt' = syAt - 1 /\ (syRun' = syRun \/ syRun' = <<e>> \o syRun)
    BY <1>1, <1>6 DEF SyDeletePlan, SyAttempt, SyEnds
  <2>5. ThingBack(e.kind)'
    BY <1>2, <1>4, <2>1, <2>3 DEF ThingBack, SyKeep
  <2> QED BY <1>1, <1>2, <2>3, <2>4, <2>5, ThingFrame
<1> QED BY <1>5, <1>6

LEMMA ValueThingsRestored ==
  ASSUME SyInv, syEvents = 0, restore_debloat_task \/ restore_boot \/ restore_hags_entry
  PROVE  SyInv'
<1>1. PICK e : e = SyEntry
  OBVIOUS
<1>2. syPc \in RestorePcs /\ syAt # 0 /\ e.kind \in {"task", "tick", "hags"} /\ SyKeep
  BY <1>1 DEF restore_debloat_task, restore_boot, restore_hags_entry, AtEntry, RestorePcs
<1>3. /\ e \in SyEntries /\ EntryTrue(e) /\ syNow \in SyMachines /\ syFirst \in SyMachines
  BY <1>1, <1>2, RestoreFacts
<1>4. /\ syPc' = "restore" /\ syAt' = syAt - 1
      /\ \/ syRun' = <<e>> \o syRun /\ syNow' = syNow
         \/ /\ syRun' = syRun \/ syRun' = <<e>> \o syRun
            /\ \/ e.kind = "task" /\ syNow' = [syNow EXCEPT !.task = e.original]
               \/ e.kind = "tick" /\ syNow' = [syNow EXCEPT !.tick = e.original]
               \/ e.kind = "hags" /\ syNow' = [syNow EXCEPT !.hags = e.original]
  <2>1. CASE restore_debloat_task
    BY <1>1, <2>1 DEF restore_debloat_task, AtEntry, SyAttempt, SyEnds
  <2>2. CASE restore_boot
    BY <1>1, <2>2 DEF restore_boot, AtEntry, SyAttempt, SyEnds
  <2>3. CASE restore_hags_entry
    BY <1>1, <2>3 DEF restore_hags_entry, AtEntry, SyAttempt, SyEnds
  <2> QED BY <2>1, <2>2, <2>3
<1>5. CASE syRun' = <<e>> \o syRun /\ syNow' = syNow
  BY <1>1, <1>2, <1>3, <1>4, <1>5, ThingFrame
<1>6. CASE e.kind = "task" /\ syNow' = [syNow EXCEPT !.task = e.original]
  <2>1. e.original \in {"absent", "enabled", "disabled"} /\ syFirst.task = e.original
    BY <1>3, <1>6, EntryOfKind DEF EntryTrue
  <2>2. /\ syNow' \in SyMachines /\ syNow'.values = syNow.values /\ syNow'.active = syNow.active
        /\ syNow'.service = syNow.service /\ syNow'.task = syFirst.task
        /\ syNow'.tick = syNow.tick /\ syNow'.hags = syNow.hags
    BY <1>3, <1>6, <2>1 DEF SyMachines
  <2>3. ThingBack(e.kind)'
    BY <1>2, <1>6, <2>2 DEF ThingBack, SyKeep
  <2> QED BY <1>1, <1>2, <1>4, <1>6, <2>2, <2>3, ThingFrame
<1>7. CASE e.kind = "tick" /\ syNow' = [syNow EXCEPT !.tick = e.original]
  <2>1. e.original \in {"absent", "yes", "no"} /\ syFirst.tick = e.original
    BY <1>3, <1>7, EntryOfKind DEF EntryTrue
  <2>2. /\ syNow' \in SyMachines /\ syNow'.values = syNow.values /\ syNow'.active = syNow.active
        /\ syNow'.service = syNow.service /\ syNow'.tick = syFirst.tick
        /\ syNow'.task = syNow.task /\ syNow'.hags = syNow.hags
    BY <1>3, <1>7, <2>1 DEF SyMachines
  <2>3. ThingBack(e.kind)'
    BY <1>2, <1>7, <2>2 DEF ThingBack, SyKeep
  <2> QED BY <1>1, <1>2, <1>4, <1>7, <2>2, <2>3, ThingFrame
<1>8. CASE e.kind = "hags" /\ syNow' = [syNow EXCEPT !.hags = e.original]
  <2>1. e.original \in {NoData, Data("DWord", 1)} /\ syFirst.hags = e.original
    BY <1>3, <1>8, EntryOfKind DEF EntryTrue
  <2>2. /\ syNow' \in SyMachines /\ syNow'.values = syNow.values /\ syNow'.active = syNow.active
        /\ syNow'.service = syNow.service /\ syNow'.hags = syFirst.hags
        /\ syNow'.task = syNow.task /\ syNow'.tick = syNow.tick
    BY <1>3, <1>8, <2>1 DEF SyMachines
  <2>3. ThingBack(e.kind)'
    BY <1>2, <1>8, <2>2 DEF ThingBack, SyKeep
  <2> QED BY <1>1, <1>2, <1>4, <1>8, <2>2, <2>3, ThingFrame
<1> QED BY <1>4, <1>5, <1>6, <1>7, <1>8

-----------------------------------------------------------------------------
(* The rows, and the beginning and the end of a restore.                   *)

(* The backup, the machine and what it was stay: so does what is recorded. *)
LEMMA SameRecords ==
  ASSUME SyInv, syEvents = 0, UNCHANGED <<syNow, syFirst, syThere, syBackup, syEvents, syLost>>,
         syPc' \notin RestorePcs
  PROVE  /\ EntriesTrue' /\ Recorded' /\ EntriesPassed'
         /\ syNow' \in SyMachines /\ syFirst' \in SyMachines /\ syThere' = TRUE
         /\ syBackup' \in Seq(SyEntries)
<1>1. SyShape /\ EntriesTrue /\ Recorded
  BY DEF SyInv
<1>2. EntriesTrue'
  BY <1>1 DEF EntriesTrue, EntryTrue
<1>3. Recorded'
  BY <1>1 DEF Recorded, ValueRecorded, ThingRecorded, ValueBack, ThingBack
<1>4. EntriesPassed'
  BY DEF EntriesPassed
<1> QED BY <1>1, <1>2, <1>3, <1>4 DEF SyShape

LEMMA ToIdle ==
  ASSUME SyInv, syEvents = 0, SyIdle(syBackup), UNCHANGED <<syNow, syFirst, syThere, syEvents, syLost>>
  PROVE  SyInv'
<1>1. syPc' = "idle" /\ syRun' = <<>> /\ syAt' = 0 /\ syBackup' = syBackup
  BY DEF SyIdle
<1>2. /\ EntriesTrue' /\ Recorded' /\ EntriesPassed'
      /\ syNow' \in SyMachines /\ syFirst' \in SyMachines /\ syThere' = TRUE
      /\ syBackup' \in Seq(SyEntries)
  <2>1. syPc' \notin RestorePcs
    BY <1>1 DEF RestorePcs
  <2> QED BY <1>1, <2>1, SameRecords
<1>3. SyShape'
  <2>1. syRun' \in Seq(SyEntries)
    BY <1>1
  <2> QED BY <1>1, <1>2, <2>1 DEF SyShape, RowPcs, RestorePcs
<1>4. RowJournaled'
  BY <1>1 DEF RowJournaled
<1> QED BY <1>2, <1>3, <1>4 DEF SyInv

LEMMA RowBound ==
  ASSUME SyInv, syEvents = 0, reobserve_cs2_registry_binding PROVE SyInv'
<1>1. syPc = "bind" /\ UNCHANGED <<syNow, syFirst, syThere, syEvents, syLost>>
  BY DEF reobserve_cs2_registry_binding
<1>2. CASE SyIdle(syBackup)
  BY <1>1, <1>2, ToIdle
<1>3. CASE syPc' = "write" /\ syAt' = 1 /\ UNCHANGED <<syRun, syBackup>>
  <2>1. /\ EntriesTrue' /\ Recorded' /\ EntriesPassed'
        /\ syNow' \in SyMachines /\ syFirst' \in SyMachines /\ syThere' = TRUE
        /\ syBackup' \in Seq(SyEntries)
    <3>1. syPc' \notin RestorePcs
      BY <1>3 DEF RestorePcs
    <3> QED BY <1>1, <1>3, <3>1, SameRecords
  <2>2. SyShape /\ RowJournaled
    BY DEF SyInv
  <2>3. syRun \in Seq(SyEntries) /\ syRun # <<>> /\ 1 \in DOMAIN syRun
    BY <1>1, <2>2 DEF SyShape
  <2>4. SyShape'
    BY <1>3, <2>1, <2>3 DEF SyShape, RowPcs, RestorePcs
  <2>5. RowJournaled'
    BY <1>1, <1>3, <2>2 DEF RowJournaled, ValueRecorded
  <2> QED BY <2>1, <2>4, <2>5 DEF SyInv
<1> QED BY <1>2, <1>3 DEF reobserve_cs2_registry_binding

LEMMA RowWritten ==
  ASSUME SyInv, syEvents = 0, SyWrite PROVE SyInv'
<1>1. SyShape /\ EntriesTrue /\ Recorded /\ RowJournaled
  BY DEF SyInv
<1>2. /\ syPc = "write" /\ UNCHANGED <<syFirst, syRun, syBackup, syThere, syEvents, syLost>> /\ syAt' = syAt + 1
      /\ syPc' = IF syAt = Len(syRun) THEN "verify" ELSE "write"
  BY DEF SyWrite, SyStep
<1>3. /\ syRun \in Seq(SyEntries) /\ syAt \in DOMAIN syRun /\ DOMAIN syRun = 1..Len(syRun) /\ Len(syRun) \in Nat
      /\ syNow \in SyMachines /\ syFirst \in SyMachines
  BY <1>1, <1>2 DEF SyShape
<1>4. PICK v : v = syRun[syAt].value
  OBVIOUS
<1>5. v \in RegValues /\ ValueRecorded(v)
  <2>1. syRun[syAt] \in SyEntries /\ syRun[syAt].kind = "registry" /\ ValueRecorded(syRun[syAt].value)
    BY <1>1, <1>2, <1>3 DEF RowJournaled
  <2> QED BY <1>4, <2>1, EntryOfKind
<1>6. syNow' = [syNow EXCEPT !.values[v] = RowTarget(v)]
  BY <1>4 DEF SyWrite, registry_write
<1>7. RowTarget(v) \in SyContents
  BY <1>5, ContentsType
<1>8. /\ syNow' \in SyMachines
      /\ \A w \in RegValues : w # v => syNow'.values[w] = syNow.values[w]
  BY <1>3, <1>5, <1>6, <1>7 DEF SyMachines
<1>9. /\ syNow'.service = syNow.service /\ syNow'.active = syNow.active /\ syNow'.task = syNow.task
      /\ syNow'.tick = syNow.tick /\ syNow'.hags = syNow.hags
  BY <1>3, <1>6 DEF SyMachines
<1>10. SyShape'
  <2>1. syPc' = "write" => syAt' \in DOMAIN syRun'
    BY <1>2, <1>3
  <2> QED BY <1>1, <1>2, <1>8, <2>1 DEF SyShape, RowPcs, RestorePcs
<1>11. EntriesTrue'
  BY <1>1, <1>2 DEF EntriesTrue, EntryTrue, RestorePcs
<1>12. Recorded'
  <2>1. ASSUME NEW w \in RegValues PROVE ValueRecorded(w)' \/ ValueBack(w)'
    <3>1. CASE w = v
      BY <1>2, <1>5, <3>1 DEF ValueRecorded
    <3>2. CASE w # v
      BY <1>1, <1>2, <1>8, <3>2 DEF Recorded, ValueRecorded, ValueBack
    <3> QED BY <3>1, <3>2
  <2>2. ASSUME NEW kind \in SyKinds PROVE ThingRecorded(kind)' \/ ThingBack(kind)'
    BY <1>1, <1>2, <1>9 DEF Recorded, ThingRecorded, ThingBack
  <2> QED BY <2>1, <2>2 DEF Recorded
<1>13. RowJournaled'
  BY <1>1, <1>2 DEF RowJournaled, ValueRecorded
<1>14. EntriesPassed'
  BY <1>2 DEF EntriesPassed, RestorePcs
<1> QED BY <1>10, <1>11, <1>12, <1>13, <1>14 DEF SyInv

LEMMA RowCaptured ==
  ASSUME SyInv, syEvents = 0, SyCapture PROVE SyInv'
<1>1. SyShape /\ EntriesTrue /\ Recorded
  BY DEF SyInv
<1>2. PICK row, failed :
        /\ row \in {"P1:30", "batch"}
        /\ SyStep("idle", "journal")
        /\ syRun' = [k \in DOMAIN RowValues(row) |-> capture_registry(row, RowValues(row)[k], failed)]
        /\ syFirst' = [syFirst EXCEPT !.values = [v \in RegValues |->
             IF ValueRecorded(v) THEN syFirst.values[v] ELSE syNow.values[v]]]
        /\ syLost' = {v \in RegValues :
             IF ValueRecorded(v) THEN v \in syLost
             ELSE v \in ToSet(RowValues(row)) /\ registry_read(v, failed) # syNow.values[v]}
        /\ UNCHANGED <<syNow, syBackup, syAt>>
  BY DEF SyCapture
<1>3. syPc' = "journal" /\ UNCHANGED <<syThere, syEvents>>
  BY <1>2 DEF SyStep
<1>4. PICK values : values = RowValues(row)
  OBVIOUS
<1>5. values \in Seq(RegValues) /\ values # <<>>
  <2>1. CASE row = "P1:30"
    BY <1>4, <2>1 DEF RowValues, RegValues
  <2>2. CASE row # "P1:30"
    <3>1. SetToSeq(BatchValues) \in Seq(BatchValues) /\ SetToSeq(BatchValues) # <<>>
      BY SystemRowsAssumption, SetToSeqShape
    <3>2. BatchValues \subseteq RegValues
      BY DEF RegValues
    <3> QED BY <1>4, <2>2, <3>1, <3>2 DEF RowValues
  <2> QED BY <2>1, <2>2
<1>6. syNow \in SyMachines /\ syFirst \in SyMachines /\ syBackup \in Seq(SyEntries)
  BY <1>1 DEF SyShape
<1>7. /\ DOMAIN values = 1..Len(values) /\ Len(values) \in Nat /\ 1 \in DOMAIN values
      /\ \A k \in DOMAIN values : values[k] \in RegValues
  BY <1>5
<1>8. /\ DOMAIN syRun' = DOMAIN values
      /\ \A k \in DOMAIN values :
           syRun'[k] = [kind |-> "registry", row |-> row, value |-> values[k], original |-> registry_read(values[k], failed)]
  BY <1>2, <1>4 DEF capture_registry
<1>9. \A v \in RegValues : registry_read(v, failed) \in {NoData, syNow.values[v]} \cap SyContents
  BY <1>6, ContentsType DEF registry_read
<1>10. \A k \in DOMAIN values : syRun'[k] \in SyEntries
  BY <1>2, <1>7, <1>8, <1>9 DEF SyEntries
<1>11. syRun' \in Seq(SyEntries) /\ syRun' # <<>>
  <2>1. syRun' = [k \in 1..Len(values) |-> syRun'[k]]
    BY <1>2, <1>4, <1>7
  <2>2. syRun' \in Seq(SyEntries)
    BY <1>7, <1>10, <2>1
  <2> QED BY <1>7, <1>8, <2>2
<1>12. /\ syFirst' \in SyMachines
       /\ \A v \in RegValues :
            syFirst'.values[v] = IF ValueRecorded(v) THEN syFirst.values[v] ELSE syNow.values[v]
       /\ syFirst'.service = syFirst.service /\ syFirst'.active = syFirst.active
       /\ syFirst'.task = syFirst.task /\ syFirst'.tick = syFirst.tick /\ syFirst'.hags = syFirst.hags
  <2>1. PICK new : new = [v \in RegValues |->
             IF ValueRecorded(v) THEN syFirst.values[v] ELSE syNow.values[v]]
    OBVIOUS
  <2>2. new \in [RegValues -> SyContents]
    BY <1>6, <2>1, ContentsType
  <2>3. syFirst' = [syFirst EXCEPT !.values = new]
    BY <1>2, <2>1
  <2>4. syFirst' \in SyMachines /\ syFirst'.values = new
    BY <1>6, <2>2, <2>3 DEF SyMachines
  <2>5. /\ syFirst'.service = syFirst.service /\ syFirst'.active = syFirst.active
        /\ syFirst'.task = syFirst.task /\ syFirst'.tick = syFirst.tick /\ syFirst'.hags = syFirst.hags
    BY <1>6, <2>3 DEF SyMachines
  <2> QED BY <2>1, <2>4, <2>5
<1>13. SyShape'
  BY <1>1, <1>2, <1>3, <1>11, <1>12 DEF SyShape, RowPcs, RestorePcs
<1>14. EntriesTrue'
  <2>1. ASSUME NEW n \in DOMAIN syBackup PROVE EntryTrue(syBackup[n])'
    <3>1. PICK d \in SyEntries : d = syBackup[n]
      BY <1>6
    <3>2. EntryTrue(d)
      BY <1>1, <3>1 DEF EntriesTrue
    <3>3. d.kind = "registry" => d.value \in RegValues /\ ValueRecorded(d.value)
      BY <3>1, EntryOfKind DEF ValueRecorded
    <3>4. d.kind = "registry" => (d.value \in syLost' <=> d.value \in syLost)
      BY <1>2, <3>3
    <3>6. EntryTrue(d)'
      BY <1>12, <3>2, <3>3, <3>4 DEF EntryTrue
    <3>5. syBackup' = syBackup
      BY <1>2
    <3> QED BY <3>1, <3>5, <3>6
  <2> QED BY <1>2, <1>3, <2>1 DEF EntriesTrue, RestorePcs
<1>15. Recorded'
  <2>1. ASSUME NEW v \in RegValues PROVE ValueRecorded(v)' \/ ValueBack(v)'
    BY <1>2, <1>12 DEF ValueRecorded, ValueBack
  <2>2. ASSUME NEW kind \in SyKinds PROVE ThingRecorded(kind)' \/ ThingBack(kind)'
    BY <1>1, <1>2, <1>12 DEF Recorded, ThingRecorded, ThingBack
  <2> QED BY <2>1, <2>2 DEF Recorded
<1>16. RowJournaled'
  <2>1. ASSUME NEW k \in DOMAIN syRun', NEW d, d = syRun'[k]
        PROVE  d.kind = "registry" /\ (ValueRecorded(d.value) \/ EntryTrue(d)')
    <3>1. PICK v \in RegValues : v = values[k] /\ v = d.value /\ v \in ToSet(RowValues(row))
      BY <1>4, <1>7, <1>8, <2>1 DEF ToSet
    <3>2. d.kind = "registry" /\ d.original = registry_read(v, failed)
      BY <1>8, <2>1, <3>1
    <3>3. CASE ~ValueRecorded(v)
      <4>1. v \in syLost' <=> registry_read(v, failed) # syNow.values[v]
        BY <1>2, <3>1, <3>3
      <4>2. d.original = IF v \in syLost' THEN NoData ELSE syFirst'.values[v]
        BY <1>9, <1>12, <3>2, <3>3, <4>1
      <4> QED BY <3>1, <3>2, <4>2 DEF EntryTrue
    <3> QED BY <3>1, <3>2, <3>3
  <2>2. \A v : ValueRecorded(v) => ValueRecorded(v)'
    BY <1>2 DEF ValueRecorded
  <2>3. ASSUME NEW k \in DOMAIN syRun'
        PROVE  (syRun[k].kind)' = "registry" /\ (ValueRecorded(syRun[k].value)' \/ EntryTrue(syRun[k])')
    <3>1. PICK d : d = syRun'[k]
      OBVIOUS
    <3>2. d.kind = "registry" /\ (ValueRecorded(d.value) \/ EntryTrue(d)')
      BY <2>1, <3>1
    <3>3. ValueRecorded(d.value)' => ValueRecorded(syRun[k].value)'
      BY <3>1
    <3>4. EntryTrue(d)' => EntryTrue(syRun[k])'
      BY <3>1
    <3> QED BY <2>2, <3>1, <3>2, <3>3, <3>4
  <2> QED BY <1>3, <2>3 DEF RowJournaled
<1>17. EntriesPassed'
  BY <1>3 DEF EntriesPassed, RestorePcs
<1> QED BY <1>13, <1>14, <1>15, <1>16, <1>17 DEF SyInv

LEMMA RowJournals ==
  ASSUME SyInv, syEvents = 0, SyJournal PROVE SyInv'
<1>1. SyShape /\ EntriesTrue /\ Recorded /\ RowJournaled
  BY DEF SyInv
<1>2. /\ syPc = "journal" /\ syPc' = "bind" /\ UNCHANGED <<syNow, syFirst, syRun, syAt, syThere, syEvents, syLost>>
      /\ syBackup' = sy_push_all(syBackup, syRun)
  BY DEF SyJournal, SyStep
<1>3. /\ syBackup \in Seq(SyEntries) /\ syRun \in Seq(SyEntries) /\ syRun # <<>>
      /\ DOMAIN syRun = 1..Len(syRun)
  BY <1>1, <1>2 DEF SyShape
<1>4. PICK old, new, list : old = syBackup /\ new = syRun /\ list = syBackup'
  OBVIOUS
<1>5. SyPushed(SyEntries, old, new, Len(new), list)
  BY <1>2, <1>3, <1>4, SyPushAll
<1>6. /\ list \in Seq(SyEntries)
      /\ \A i \in DOMAIN old : \E j \in DOMAIN list : list[j] = old[i]
      /\ \A i \in DOMAIN new : \E j \in DOMAIN list : SameIdentity(list[j], new[i])
      /\ \A j \in DOMAIN list :
           \/ \E i \in DOMAIN old : list[j] = old[i]
           \/ \E i \in DOMAIN new : list[j] = new[i] /\ \A m \in DOMAIN old : ~SameIdentity(old[m], new[i])
  BY <1>3, <1>4, <1>5 DEF SyPushed
<1>7. \A v \in RegValues : ValueRecorded(v) => ValueRecorded(v)'
  BY <1>4, <1>6 DEF ValueRecorded
<1>8. \A kind \in SyKinds : ThingRecorded(kind) => ThingRecorded(kind)'
  BY <1>4, <1>6 DEF ThingRecorded
<1>9. SyShape'
  BY <1>1, <1>2, <1>3, <1>4, <1>6 DEF SyShape, RowPcs, RestorePcs
<1>10. EntriesTrue'
  <2>1. ASSUME NEW j \in DOMAIN list PROVE EntryTrue(list[j])'
    <3>1. PICK d \in SyEntries : d = list[j]
      BY <1>6
    <3>2. CASE \E i \in DOMAIN old : d = old[i]
      <4>1. EntryTrue(d)
        BY <1>1, <1>4, <3>2 DEF EntriesTrue
      <4>2. EntryTrue(d)'
        BY <1>2, <4>1 DEF EntryTrue
      <4> QED BY <3>1, <4>2
    <3>3. CASE \E i \in DOMAIN new : d = new[i] /\ \A m \in DOMAIN old : ~SameIdentity(old[m], new[i])
      <4>1. PICK i \in DOMAIN new : d = new[i] /\ \A m \in DOMAIN old : ~SameIdentity(old[m], new[i])
        BY <3>3
      <4>2. d.kind = "registry" /\ (ValueRecorded(d.value) \/ EntryTrue(d))
        BY <1>1, <1>2, <1>4, <4>1 DEF RowJournaled
      <4>3. ~ValueRecorded(d.value)
        BY <1>4, <4>1, <4>2 DEF ValueRecorded, SameIdentity
      <4>4. EntryTrue(d)'
        BY <1>2, <4>2, <4>3 DEF EntryTrue
      <4> QED BY <3>1, <4>4
    <3> QED BY <1>6, <3>1, <3>2, <3>3
  <2>2. ASSUME NEW j \in DOMAIN syBackup' PROVE EntryTrue(syBackup[j])'
    <3>1. EntryTrue(list[j])'
      BY <1>4, <2>1
    <3> QED BY <1>4, <3>1
  <2> QED BY <1>2, <2>2 DEF EntriesTrue, RestorePcs
<1>11. Recorded'
  <2>1. /\ \A v \in RegValues : ValueBack(v) => ValueBack(v)'
        /\ \A kind \in SyKinds : ThingBack(kind) => ThingBack(kind)'
    BY <1>2 DEF ValueBack, ThingBack
  <2> QED BY <1>1, <1>7, <1>8, <2>1 DEF Recorded
<1>12. RowJournaled'
  <2>1. ASSUME NEW k \in DOMAIN new
        PROVE  new[k].kind = "registry" /\ \E j \in DOMAIN list : list[j].kind = "registry" /\ list[j].value = new[k].value
    <3>1. new[k].kind = "registry"
      BY <1>1, <1>2, <1>4 DEF RowJournaled
    <3> QED BY <1>6, <3>1 DEF SameIdentity
  <2>2. ASSUME NEW k \in DOMAIN syRun' PROVE (syRun[k].kind = "registry")' /\ ValueRecorded(syRun[k].value)'
    <3>1. syRun' = new
      BY <1>2, <1>4
    <3>2. PICK v : v = new[k].value
      OBVIOUS
    <3>3. ValueRecorded(v)'
      BY <1>4, <2>1, <3>1, <3>2 DEF ValueRecorded
    <3>4. ValueRecorded(v)' => ValueRecorded(syRun[k].value)'
      BY <3>1, <3>2
    <3> QED BY <2>1, <3>1, <3>3, <3>4
  <2> QED BY <1>2, <2>2 DEF RowJournaled
<1>13. EntriesPassed'
  BY <1>2 DEF EntriesPassed, RestorePcs
<1> QED BY <1>9, <1>10, <1>11, <1>12, <1>13 DEF SyInv

LEMMA RestoreBegins ==
  ASSUME SyInv, syEvents = 0, SyRestore PROVE SyInv'
<1>1. SyShape /\ EntriesTrue /\ Recorded
  BY DEF SyInv
<1>2. /\ syPc = "idle" /\ syPc' = "restore" /\ syAt' = Len(syBackup)
      /\ UNCHANGED <<syNow, syFirst, syBackup, syRun, syThere, syEvents, syLost>>
  BY DEF SyRestore, SyStep
<1>3. /\ syBackup \in Seq(SyEntries) /\ syRun = <<>> /\ Len(syBackup) \in Nat
      /\ DOMAIN syBackup = 1..Len(syBackup)
  BY <1>1, <1>2 DEF SyShape
<1>4. SyShape'
  <2>1. syAt' \in 0..Len(syBackup')
    BY <1>2, <1>3
  <2> QED BY <1>1, <1>2, <2>1 DEF SyShape, RowPcs, RestorePcs
<1>5. EntriesTrue'
  BY <1>1, <1>2, <1>3 DEF EntriesTrue, EntryTrue
<1>6. Recorded'
  BY <1>1, <1>2 DEF Recorded, ValueRecorded, ThingRecorded, ValueBack, ThingBack
<1>7. RowJournaled'
  BY <1>2 DEF RowJournaled
<1>8. EntriesPassed'
  <2>1. ~\E i \in DOMAIN syBackup' : i > syAt'
    BY <1>2, <1>3
  <2> QED BY <2>1 DEF EntriesPassed
<1> QED BY <1>4, <1>5, <1>6, <1>7, <1>8 DEF SyInv

(* The retained entries become backup.json: what was passed as restored is *)
(* back, and the others are still recorded.                                *)
LEMMA RestoreCommits ==
  ASSUME SyInv, syEvents = 0, SyCommit PROVE SyInv'
<1>1. SyShape /\ EntriesTrue /\ Recorded /\ EntriesPassed
  BY DEF SyInv
<1>2. /\ syPc = "restore" /\ syAt = 0 /\ syPc' = "idle" /\ syRun' = <<>> /\ syAt' = 0 /\ syBackup' = syRun
      /\ UNCHANGED <<syNow, syFirst, syThere, syEvents, syLost>>
  BY DEF SyCommit, SyIdle
<1>3. syRun \in Seq(SyEntries) /\ syBackup \in Seq(SyEntries) /\ DOMAIN syBackup = 1..Len(syBackup)
  BY <1>1 DEF SyShape
<1>4. SyShape'
  <2>1. syRun' \in Seq(SyEntries)
    BY <1>2
  <2> QED BY <1>1, <1>2, <1>3, <2>1 DEF SyShape, RowPcs, RestorePcs
<1>5. EntriesTrue'
  BY <1>1, <1>2 DEF EntriesTrue, EntryTrue, RestorePcs
<1>6. \A i \in DOMAIN syBackup :
        (\E j \in DOMAIN syRun : syRun[j] = syBackup[i]) \/ EntryBack(syBackup[i])
  BY <1>1, <1>2, <1>3 DEF EntriesPassed, RestorePcs
<1>7. Recorded'
  <2>1. ASSUME NEW v \in RegValues PROVE ValueRecorded(v)' \/ ValueBack(v)'
    <3>1. ValueBack(v) => ValueBack(v)'
      BY <1>2 DEF ValueBack
    <3>2. CASE ValueRecorded(v)
      <4>1. PICK i \in DOMAIN syBackup : syBackup[i].kind = "registry" /\ syBackup[i].value = v
        BY <3>2 DEF ValueRecorded
      <4>2. EntryBack(syBackup[i]) => ValueBack(v)
        BY <4>1 DEF EntryBack
      <4> QED BY <1>2, <1>6, <3>1, <4>1, <4>2 DEF ValueRecorded
    <3> QED BY <1>1, <3>1, <3>2 DEF Recorded
  <2>2. ASSUME NEW kind \in SyKinds PROVE ThingRecorded(kind)' \/ ThingBack(kind)'
    <3>1. ThingBack(kind) => ThingBack(kind)'
      BY <1>2 DEF ThingBack
    <3>2. CASE ThingRecorded(kind)
      <4>1. PICK i \in DOMAIN syBackup : syBackup[i].kind = kind
        BY <3>2 DEF ThingRecorded
      <4>2. kind # "registry"
        BY DEF SyKinds
      <4>3. EntryBack(syBackup[i]) => ThingBack(kind)
        BY <4>1, <4>2 DEF EntryBack
      <4> QED BY <1>2, <1>6, <3>1, <4>1, <4>3 DEF ThingRecorded
    <3> QED BY <1>1, <3>1, <3>2 DEF Recorded
  <2> QED BY <2>1, <2>2 DEF Recorded
<1>8. RowJournaled' /\ EntriesPassed'
  BY <1>2 DEF RowJournaled, EntriesPassed, RestorePcs
<1> QED BY <1>4, <1>5, <1>7, <1>8 DEF SyInv

LEMMA SyInitInv == SyInit => SyInv
<1> SUFFICES ASSUME NEW content \in RegContents, NEW record \in SyRecords, SyStart(content, record)
             PROVE  SyInv
  BY DEF SyInit
<1>1. record \in SyEntries /\ content \in SyContents
  BY DEF SyEntries, SyContents
<1>2. PICK task : task = IF record.kind = "task" THEN record.original ELSE "enabled"
  OBVIOUS
<1>3. PICK values : values = [v \in RegValues |-> content]
  OBVIOUS
<1>4. syNow = [values |-> values, service |-> Service("Disabled", FALSE, "Stopped"),
               plans |-> [g \in {"user", "suite"} |->
                            IF g = "suite" THEN SUITE_POWER_PLAN_NAME ELSE "Balanced"],
               active |-> "suite", task |-> IF task = "absent" THEN "enabled" ELSE "disabled",
               tick |-> "yes", hags |-> Data("DWord", 2)]
  BY <1>2, <1>3 DEF SyStart, Legacy
<1>5. /\ syFirst = Before(syNow, record) /\ syThere = TRUE
      /\ syBackup = <<record>> /\ syRun = <<>> /\ syAt = 0 /\ syPc = "idle" /\ syEvents = 0
      /\ syLost = {}
  BY DEF SyStart
<1>6. syNow \in SyMachines
  <2>1. values \in [RegValues -> SyContents]
    BY <1>1, <1>3
  <2>2. /\ Service("Disabled", FALSE, "Stopped") \in
             [present : BOOLEAN, start : {"Automatic", "Manual", "Disabled"}, delayed : BOOLEAN,
              status : {"Running", "Stopped"}]
        /\ [g \in {"user", "suite"} |-> IF g = "suite" THEN SUITE_POWER_PLAN_NAME ELSE "Balanced"]
             \in [{"user", "suite"} -> {SUITE_POWER_PLAN_NAME, "Balanced"}]
    BY DEF Service
  <2> QED BY <1>4, <2>1, <2>2 DEF SyMachines
<1>7. /\ syFirst \in SyMachines /\ syFirst.values = syNow.values /\ EntryTrue(record)
      /\ \A kind \in SyKinds : record.kind = kind \/ ThingBack(kind)
  <2>0. /\ record.kind \in SyKinds \cup {"registry"} /\ record.kind # "registry"
    BY <1>1, EntryOfKind DEF SyRecords
  <2>1. CASE record.kind = "service"
    <3>1. PICK o \in [start : {"Automatic", "Disabled"}, delayed : BOOLEAN, status : {"Running", "Stopped"}] :
            o = record.original
      BY <1>1, <2>1, EntryOfKind
    <3>2. PICK s : s = Service(o.start, o.delayed, o.status)
      OBVIOUS
    <3>3. s \in [present : BOOLEAN, start : {"Automatic", "Manual", "Disabled"}, delayed : BOOLEAN,
                 status : {"Running", "Stopped"}]
      BY <3>2 DEF Service
    <3>4. syFirst = [syNow EXCEPT !.service = s]
      BY <1>5, <2>1, <3>1, <3>2 DEF Before
    <3>5. /\ syFirst \in SyMachines /\ syFirst.values = syNow.values /\ syFirst.service = s
          /\ syFirst.active = syNow.active /\ syFirst.task = syNow.task
          /\ syFirst.tick = syNow.tick /\ syFirst.hags = syNow.hags
      BY <1>6, <3>3, <3>4 DEF SyMachines
    <3>6. EntryTrue(record)
      BY <2>1, <3>1, <3>2, <3>5 DEF EntryTrue
    <3>7. \A kind \in SyKinds : record.kind = kind \/ ThingBack(kind)
      BY <2>1, <3>5 DEF ThingBack
    <3> QED BY <3>5, <3>6, <3>7
  <2>2. CASE record.kind = "plan"
    <3>1. syFirst = [syNow EXCEPT !.active = "user", !.plans = Restrict(syNow.plans, {"user"})]
      BY <1>5, <2>2 DEF Before
    <3>2. Restrict(syNow.plans, {"user"}) \in [{"user"} -> {SUITE_POWER_PLAN_NAME, "Balanced"}]
      BY <1>4 DEF Restrict
    <3>3. PICK plans : plans = Restrict(syNow.plans, {"user"})
      OBVIOUS
    <3>4. plans \in UNION {[D -> {SUITE_POWER_PLAN_NAME, "Balanced"}] : D \in {{"user"}, {"user", "suite"}}}
      BY <3>2, <3>3
    <3>5. /\ syFirst \in SyMachines /\ syFirst.values = syNow.values /\ syFirst.active = "user"
          /\ syFirst.service = syNow.service /\ syFirst.task = syNow.task
          /\ syFirst.tick = syNow.tick /\ syFirst.hags = syNow.hags
      BY <1>6, <3>1, <3>3, <3>4 DEF SyMachines
    <3>6. EntryTrue(record)
      BY <2>2, <3>5 DEF EntryTrue
    <3>7. \A kind \in SyKinds : record.kind = kind \/ ThingBack(kind)
      BY <2>2, <3>5 DEF ThingBack
    <3> QED BY <3>5, <3>6, <3>7
  <2>3. CASE record.kind = "task"
    <3>1. record.original \in {"absent", "enabled", "disabled"}
      BY <1>1, <2>3, EntryOfKind
    <3>2. syFirst = [syNow EXCEPT !.task = record.original]
      BY <1>5, <2>3 DEF Before
    <3> QED BY <1>6, <2>3, <3>1, <3>2 DEF SyMachines, EntryTrue, ThingBack
  <2>4. CASE record.kind = "tick"
    <3>1. record.original \in {"absent", "yes", "no"}
      BY <1>1, <2>4, EntryOfKind
    <3>2. syFirst = [syNow EXCEPT !.tick = record.original]
      BY <1>5, <2>4 DEF Before
    <3> QED BY <1>6, <2>4, <3>1, <3>2 DEF SyMachines, EntryTrue, ThingBack
  <2>5. CASE record.kind = "hags"
    <3>1. record.original \in {NoData, Data("DWord", 1)}
      BY <1>1, <2>5, EntryOfKind
    <3>2. syFirst = [syNow EXCEPT !.hags = record.original]
      BY <1>5, <2>5 DEF Before
    <3> QED BY <1>6, <2>5, <3>1, <3>2 DEF SyMachines, EntryTrue, ThingBack
  <2> QED BY <2>0, <2>1, <2>2, <2>3, <2>4, <2>5 DEF SyKinds
<1>8. /\ syBackup \in Seq(SyEntries) /\ DOMAIN syBackup = {1} /\ syBackup[1] = record /\ syRun \in Seq(SyEntries)
  BY <1>1, <1>5
<1>9. SyShape
  BY <1>5, <1>6, <1>7, <1>8 DEF SyShape, RowPcs, RestorePcs
<1>10. EntriesTrue
  BY <1>5, <1>7, <1>8 DEF EntriesTrue, RestorePcs
<1>11. Recorded
  BY <1>7, <1>8 DEF Recorded, ThingRecorded, ValueBack
<1>12. RowJournaled /\ EntriesPassed
  BY <1>5 DEF RowJournaled, EntriesPassed, RestorePcs
<1> QED BY <1>9, <1>10, <1>11, <1>12 DEF SyInv

LEMMA CountOfEvents ==
  ASSUME SyNext PROVE SyChanges \/ UNCHANGED syEvents
<1>1. CASE SyCapture \/ SyJournal \/ SyWrite \/ SyRestore
  BY <1>1 DEF SyCapture, SyJournal, SyWrite, SyRestore, SyStep
<1>2. CASE reobserve_cs2_registry_binding \/ SyVerify \/ SyCommit \/ SyCrash
  BY <1>2 DEF reobserve_cs2_registry_binding, SyVerify, SyCommit, SyCrash
<1>3. CASE \/ restore_registry \/ restore_service \/ configure_delayed_auto_start
           \/ wait_for_state \/ query_config
  BY <1>3 DEF restore_registry, restore_service, configure_delayed_auto_start, wait_for_state,
              query_config, SyKeep
<1>4. CASE restore_power_plan \/ SyDeletePlan \/ restore_debloat_task \/ restore_boot \/ restore_hags_entry
  BY <1>4 DEF restore_power_plan, SyDeletePlan, restore_debloat_task, restore_boot, restore_hags_entry, SyKeep
<1> QED BY <1>1, <1>2, <1>3, <1>4 DEF SyNext

LEMMA SyNextInv == SyInv /\ syEvents \in Nat /\ [SyNext]_syVars => SyInv' /\ syEvents' \in Nat
<1> SUFFICES ASSUME SyInv, syEvents \in Nat, [SyNext]_syVars PROVE SyInv' /\ syEvents' \in Nat
  OBVIOUS
<1>1. CASE UNCHANGED syVars
  BY <1>1 DEF syVars, SyInv, SyShape, EntriesTrue, Recorded, RowJournaled, EntriesPassed, EntryTrue,
              ValueRecorded, ThingRecorded, ValueBack, ThingBack, EntryBack, SyEntry
<1>2. CASE SyChanges
  <2>1. syEvents' = syEvents + 1
    BY <1>2 DEF SyChanges
  <2>2. syEvents' \in Nat /\ syEvents' # 0
    BY <2>1
  <2> QED BY <2>2 DEF SyInv
<1>3. CASE SyNext /\ ~SyChanges /\ syEvents # 0
  <2>1. syEvents' = syEvents
    BY <1>3, CountOfEvents
  <2> QED BY <1>3, <2>1 DEF SyInv
<1>4. CASE SyNext /\ ~SyChanges /\ syEvents = 0
  <2>0. syEvents' = syEvents
    BY <1>4, CountOfEvents
  <2>1. CASE SyCapture
    BY <1>4, <2>0, <2>1, RowCaptured
  <2>2. CASE SyJournal
    BY <1>4, <2>0, <2>2, RowJournals
  <2>3. CASE reobserve_cs2_registry_binding
    BY <1>4, <2>0, <2>3, RowBound
  <2>4. CASE SyWrite
    BY <1>4, <2>0, <2>4, RowWritten
  <2>5. CASE SyVerify \/ SyCrash
    <3>1. SyIdle(syBackup) /\ UNCHANGED <<syNow, syFirst, syThere, syEvents, syLost>>
      BY <2>5 DEF SyVerify, SyCrash
    <3> QED BY <1>4, <2>0, <3>1, ToIdle
  <2>6. CASE SyRestore
    BY <1>4, <2>0, <2>6, RestoreBegins
  <2>7. CASE restore_registry
    BY <1>4, <2>0, <2>7, RegistryRestored
  <2>8. CASE restore_service \/ configure_delayed_auto_start \/ wait_for_state \/ query_config
    BY <1>4, <2>0, <2>8, ServiceRestored
  <2>9. CASE restore_power_plan \/ SyDeletePlan
    BY <1>4, <2>0, <2>9, PlanRestored
  <2>10. CASE restore_debloat_task \/ restore_boot \/ restore_hags_entry
    BY <1>4, <2>0, <2>10, ValueThingsRestored
  <2>11. CASE SyCommit
    BY <1>4, <2>0, <2>11, RestoreCommits
  <2> QED BY <1>4, <2>1, <2>2, <2>3, <2>4, <2>5, <2>6, <2>7, <2>8, <2>9, <2>10, <2>11 DEF SyNext
<1> QED BY <1>1, <1>2, <1>3, <1>4

(* SyInv holds in every reachable state: while nobody else changes the     *)
(* machine, every record tells what was there before the suite, everything *)
(* that is not as it was has its record, and a restore only passes as      *)
(* restored what is back, whatever calls fail; a value recorded as absent  *)
(* has a record that tells just that (storage/recovery.rs,                 *)
(* system/registry.rs).                                                    *)
THEOREM SyInvariant == SySpec => []SyInv
<1>1. SyInit => SyInv /\ syEvents \in Nat
  <2>1. SyInit => syEvents \in Nat
    BY DEF SyInit, SyStart
  <2> QED BY <2>1, SyInitInv
<1>2. (SyInv /\ syEvents \in Nat) /\ [SyNext]_syVars => (SyInv /\ syEvents \in Nat)'
  BY SyNextInv
<1> QED BY <1>1, <1>2, PTL DEF SySpec

(* Recovery that empties backup.json has brought back every registry value, *)
(* the service, the active plan, the task, the tick and HwSchMode, whatever *)
(* calls failed and wherever the process ended on the way; only a value     *)
(* that the capture recorded as absent, because its type has no             *)
(* representation or its read failed, may be deleted instead                *)
(* (storage/recovery.rs, system/registry.rs, system/services.rs).           *)
THEOREM SystemStaysRestored == SySpec => []SystemRestored
<1>1. SyInv => SystemRestored
  <2> SUFFICES ASSUME SyInv, syPc = "idle", syBackup = <<>>, syEvents = 0
               PROVE  /\ \A v \in RegValues : ValueBack(v)
                      /\ \A thing \in {"service", "active", "task", "tick", "hags"} : syNow[thing] = syFirst[thing]
    BY DEF SystemRestored, ValueBack
  <2>1. Recorded /\ syNow \in SyMachines /\ syFirst \in SyMachines
    BY DEF SyInv, SyShape
  <2>2. /\ \A v \in RegValues : ~ValueRecorded(v)
        /\ \A kind \in SyKinds : ~ThingRecorded(kind)
    BY DEF ValueRecorded, ThingRecorded
  <2>3. \A v \in RegValues : ValueBack(v)
    BY <2>1, <2>2 DEF Recorded
  <2>4. /\ syNow.service = syFirst.service /\ syNow.active = syFirst.active /\ syNow.task = syFirst.task
        /\ syNow.tick = syFirst.tick /\ syNow.hags = syFirst.hags
    BY <2>1, <2>2 DEF Recorded, ThingBack, SyKinds
  <2> QED BY <2>3, <2>4
<1> QED BY <1>1, SyInvariant, PTL

=============================================================================
