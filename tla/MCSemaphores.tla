---------------------------- MODULE MCSemaphores ----------------------------
(***************************************************************************)
(* Three programs of semaphores for TLC: the room, the molecules (m_...)   *)
(* and the light with tokens (s_...).  A run is a run of one of them, the  *)
(* others stay as they start.                                              *)
(***************************************************************************)
EXTENDS RoomLight

CONSTANT Amount         \* how many molecules of each kind

ASSUME AmountAssumption == \A p \in {"NaCl", "H2O", "H2SO4"} : Amount[p] \in Nat

\* For the runs.
FewMolecules == [NaCl |-> 3, H2O |-> 2, H2SO4 |-> 2]

VARIABLES program,
          phase, m_sem, m_count, todo, m_created, last, m_main,
          sems, moving, s_light, s_created

moleculeVars == <<phase, m_sem, m_count, todo, m_created, last, m_main>>
streetVars == <<sems, moving, s_light, s_created>>
allVars == <<vars, moleculeVars, streetVars, program>>

Molecule == INSTANCE Molecules
    WITH sem <- m_sem, count <- m_count, created <- m_created, main <- m_main
Street == INSTANCE StreetTokens WITH light <- s_light, created <- s_created

\* The runs of H2SO4 start when all atoms but one exist: the last to be created is a
\* hydrogen, a sulphur or an oxygen.
LastOnes == {<<e, Molecule!HowMany(e)>> : e \in Molecule!Elements}
AllButOne ==
    \E a \in LastOnes : m_created = Molecule!Atoms \ {a} /\ last = <<"O_", 4 * Amount["H2SO4"] - 1>>

MCInit ==
    /\ program \in {"room", "l8_ex6", "l8_ex5"}
    /\ Init
    /\ Street!Init
    /\ phase \in IF program = "l8_ex6" THEN Molecule!Phases ELSE {"NaCl"}
    /\ Molecule!InitialPhase
    /\ IF phase = "H2SO4" THEN AllButOne ELSE Molecule!NothingCreated

\* Atoms of an element that have the same left to do are alike, but for the one that
\* main waits for: the first of them and that one are enough.
InLine(a) ==
    a # last => \A k \in 1 .. a[2] - 1 :
                    LET b == <<a[1], k>>
                    IN  b = last \/ b \notin m_created \/ todo[b] # todo[a]

MCMain ==
    /\ \/ program = "room" /\ MainStep /\ UNCHANGED <<moleculeVars, streetVars>>
       \/ program = "l8_ex6" /\ Molecule!MainStep /\ UNCHANGED <<vars, streetVars>>
    /\ UNCHANGED program

MCController ==
    program = "room" /\ ControllerStep /\ UNCHANGED <<moleculeVars, streetVars, program>>

MCPerson(t) ==
    program = "room" /\ PersonStep(t) /\ UNCHANGED <<moleculeVars, streetVars, program>>

MCAtom ==
    /\ program = "l8_ex6"
    /\ \E a \in Molecule!Atoms : InLine(a) /\ Molecule!AtomStep(a)
    /\ UNCHANGED <<vars, streetVars, program>>

\* The later phases of l8_ex6.c: not part of MCMain, whose steps are fair.
MCEnd == program = "l8_ex6" /\ Molecule!EndLater /\ UNCHANGED <<vars, streetVars, program>>

MCStreet == program = "l8_ex5" /\ Street!Next /\ UNCHANGED <<vars, moleculeVars, program>>

MCNext == MCMain \/ MCController \/ (\E t \in Persons : MCPerson(t)) \/ MCAtom \/ MCEnd \/ MCStreet

\* The scheduler runs every thread that can run; of the atoms, one.
MCSpec ==
    /\ MCInit /\ [][MCNext]_allVars
    /\ WF_allVars(MCMain) /\ WF_allVars(MCController)
    /\ \A t \in Persons : WF_allVars(MCPerson(t))
    /\ WF_allVars(MCAtom)
------------------------------------------------------------------------------
\* The type invariants.
MCTypeOK == TypeOK /\ Molecule!TypeOK /\ Street!TypeOK

\* Atoms have their turns one at a time and in the order of the recipe, and none leaves
\* before its molecule is complete, but for two hydrogens of water.
InRecipeOrder == Molecule!InRecipeOrder /\ Molecule!MoleculesComplete

\* A street moves only while it is green, and there are no other tokens.
OneStreetMoves == Street!OneStreetMoves

\* Everybody visits the room and main joins everybody; the atoms of l8_ex6.c find
\* partners, whatever the order they are created in, and only the end of their process
\* can cut a molecule short.
AllLeave ==
    /\ program = "room" => Termination
    /\ program = "l8_ex6" => Molecule!EverybodyBonds
=============================================================================
