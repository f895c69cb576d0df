---------------------------- MODULE MCLightCache ----------------------------
(***************************************************************************)
(* Instances of LightCache for TLC.                                        *)
(***************************************************************************)
EXTENDS LightCache, TLC

CONSTANTS c1, c2, k1, k2, word, r1, r2, r3, b1, b2

\* A header that fits, with the sections whose initials are in `has'.
Header(op, has) == [op |-> op, klen |-> "k" \in has, dlen |-> "d" \in has,
                    elen |-> "e" \in has, fits |-> TRUE]

Oversize == [op |-> "SET", klen |-> TRUE, dlen |-> TRUE, elen |-> TRUE, fits |-> FALSE]

GetH    == Header("GET", {"k"})
SetH    == Header("SET", {"k", "d", "e"})
DeleteH == Header("DELETE", {"k"})
FlushH  == Header("FLUSH_ALL", {})
StatsH  == Header("GET_STATS", {})
ChgH    == Header("CHG_SETTING", {"k", "d"})
SettingH == Header("GET_SETTING", {"k"})

\* Requests with every section their command needs, and some with sections missing
\* where the command checks for them or with more than it needs.
Complete == {GetH, SetH, DeleteH, StatsH, ChgH, SettingH, Oversize,
             Header("SET", {"k"}), Header("CHG_SETTING", {}),
             Header("GET_STATS", {"k", "d", "e"}), Header("unknown", {"k"})}

WithFlush == Complete \cup {FlushH}

\* What two clients with keys of their own send.
Private == {GetH, SetH, DeleteH, StatsH}

\* What two clients of one key send.
Shared == {GetH, SetH, DeleteH, FlushH}

\* Two clients of one key who also leave out sections.
Careless == Shared \cup {Header("GET", {}), Header("GET_SETTING", {}), Header("SET", {"k", "d"})}

\* Nothing but well-formed GETs and SETs.
WellFormedOnly == {GetH, SetH}

OneClient  == [c \in Conns |-> Keys]
Apart      == c1 :> {k1} @@ c2 :> {k2}
WordAndNumber == {word, 1}
NumberOnly == {1}

BlockSymmetry == Permutations(Reqs) \cup Permutations(Bufs)
=============================================================================
