-------------------------------- MODULE MCStse --------------------------------
(* The messages of market_data/messages.h, and aggregates of up to two     *)
(* members, with or without bases, followed by one more object.            *)
EXTENDS Messages

Padded == Aggregate(<< >>, <<Plain(Scalar(1)), Plain(Scalar(2))>>)

(* An object that keeps a pointer out of its serial form, next to one that *)
(* does not.                                                               *)
WithPointer == Aggregate(<< >>, <<[type |-> Pointer(2), mark |-> "skip"],
                                  Plain(Padded)>>)

SmallTypes ==
    {Scalar(1), Scalar(2), StaticContainer(Scalar(1), 2), Padded,
     StaticContainer(Padded, 2), Pointer(2), StaticContainer(Pointer(2), 2),
     WithPointer}

(* Those of them that pairs of members are made of.                        *)
PairTypes == {Scalar(1), Scalar(2), StaticContainer(Padded, 2), Pointer(2), WithPointer}

MembersOf(types) == {[type |-> t, mark |-> m] : t \in types, m \in {"none", "ignore", "skip"}}

MCBases == {<<Aggregate(<< >>, <<Plain(Scalar(1))>>)>>,
            <<Aggregate(<< >>, <<Plain(Scalar(1))>>), Padded>>}

MCAggregates ==
    {Aggregate(<< >>, <<m>>) : m \in MembersOf(SmallTypes)}
    \cup {Aggregate(<< >>, <<m, n>>) : m \in MembersOf(PairTypes), n \in MembersOf(PairTypes)}
    \cup {Aggregate(b, <<m>>) : b \in MCBases, m \in MembersOf(SmallTypes)}

MCArgLists ==
    {<<t>> : t \in MessageTypes} \cup {<<t, Scalar(2)>> : t \in MCAggregates}

(* The types of objects and of their parts.                                *)
RECURSIVE WithParts(_)
WithParts(t) == {t} \cup UNION {WithParts(p) : p \in PartTypes(t)}

MCTypes ==
    LET partsOf(types) == UNION {WithParts(types[i]) : i \in DOMAIN types}
    IN  UNION {partsOf(types) : types \in MCArgLists}
===============================================================================
