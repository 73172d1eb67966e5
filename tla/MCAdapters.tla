----------------------------- MODULE MCAdapters -----------------------------
(* The row adapters side by side: one behaviour exercises the adapter that  *)
(* `focus` names, and the others stay at a fixed initial state.  The        *)
(* adapters share no state in the code: each reads its own surface of       *)
(* Windows and its own entries of backup.json, and the suite lock keeps     *)
(* their commands apart.                                                    *)
EXTENDS Pagefile, NetworkStack, Interrupts, Cleanup, DrsProfile, SystemRows,
        GameConfig, TLC

VARIABLE focus   \* the part this behaviour exercises

adapterVars == <<focus, pfVars, nsVars, inVars, clVars, drVars, syVars, cfgVars>>

-----------------------------------------------------------------------------
\* The fixed initial state of an adapter that is not in focus.
PfRest == PfStart([host |-> CHOOSE h \in Hosts : TRUE, automatic |-> FALSE, settings |-> <<>>])
NsRest == NsStart(Absent, CHOOSE n \in NlaFacts : n.value = Absent, {})
InRest == InStart(DisplayDevices, 0, NoValue)
ClRest == ClStart([o \in TempObjects |-> Gone])
DrRest == DrStart(CHOOSE s \in Stores : TRUE)
SyRest == SyStart(NoData, [kind |-> "tick", original |-> "absent"])
CfgRest == CfgStart(NoFile, NoFile)

\* The initial states of the two largest adapters, with nothing lost: the
\* driver's panel leads from these stores to every other one while no entry is
\* there, and a capture then makes it the first one; the contents of a registry
\* value matter to no record but its own.
DrFocus ==
  \E store \in Stores :
    /\ store.owner["csgos2.exe"] = None /\ store.profiles # DrsProfiles
    /\ DrStart(store)
SyFocus ==
  \E content \in RegContents, record \in SyRecords :
    /\ content = NoData \/ record.kind = "tick"
    /\ SyStart(content, record)

\* Nothing but its bytes tells one install of the game from another.
InstallSymmetry == Permutations(CfgInstalls)

AdaptersInit ==
  /\ focus \in {"pagefile", "network", "interrupts", "cleanup", "drs", "system",
               "config"}
  /\ IF focus = "pagefile" THEN PfInit ELSE PfRest
  /\ IF focus = "network" THEN NsInit ELSE NsRest
  /\ IF focus = "interrupts" THEN InInit ELSE InRest
  /\ IF focus = "cleanup" THEN ClInit ELSE ClRest
  /\ IF focus = "drs" THEN DrFocus ELSE DrRest
  /\ IF focus = "system" THEN SyFocus ELSE SyRest
  /\ IF focus = "config" THEN CfgInit ELSE CfgRest

AdaptersNext ==
  \/ /\ focus = "pagefile" /\ PfNext
     /\ UNCHANGED <<focus, nsVars, inVars, clVars, drVars, syVars, cfgVars>>
  \/ /\ focus = "network" /\ NsNext
     /\ UNCHANGED <<focus, pfVars, inVars, clVars, drVars, syVars, cfgVars>>
  \/ /\ focus = "interrupts" /\ InNext
     /\ UNCHANGED <<focus, pfVars, nsVars, clVars, drVars, syVars, cfgVars>>
  \/ /\ focus = "cleanup" /\ ClNext
     /\ UNCHANGED <<focus, pfVars, nsVars, inVars, drVars, syVars, cfgVars>>
  \/ /\ focus = "drs" /\ DrNext
     /\ UNCHANGED <<focus, pfVars, nsVars, inVars, clVars, syVars, cfgVars>>
  \/ /\ focus = "system" /\ SyNext
     /\ UNCHANGED <<focus, pfVars, nsVars, inVars, clVars, drVars, cfgVars>>
  \/ /\ focus = "config" /\ CfgNext
     /\ UNCHANGED <<focus, pfVars, nsVars, inVars, clVars, drVars, syVars>>

AdaptersSpec == AdaptersInit /\ [][AdaptersNext]_adapterVars

-----------------------------------------------------------------------------
\* The type invariant of every adapter: what a row holds of Windows and of
\* backup.json keeps its shape through captures, interruptions and restores.
AdaptersTypeOK ==
  /\ PfTypeOK /\ NsTypeOK /\ InTypeOK /\ ClTypeOK /\ DrTypeOK /\ SyTypeOK
  /\ CfgTypeOK
=============================================================================
