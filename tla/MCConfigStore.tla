--------------------------- MODULE MCConfigStore ---------------------------
(* Small instances of ConfigStore for TLC. *)
EXTENDS ConfigStore, TLC

CONSTANTS p1, p2, s1, s2

MCProfile == {p1, p2}
MCSetting == {s1, s2}

\* Configurations of distinct networks: the form gives each an id of its own.  Only
\* those with a slot free change the header.
MCSubmitted ==
    {c \in [setting : MCSetting, count : Count, nets : [Slot -> MCProfile \cup {Absent}]] :
        /\ c.setting = s1 \/ c.count < MaxNets
        /\ \A i \in Slot :
            /\ c.nets[i] = Absent <=> i >= c.count
            /\ \A j \in Slot : j < i /\ i < c.count => c.nets[j] # c.nets[i]}

Symmetry == Permutations(MCProfile)
=============================================================================
