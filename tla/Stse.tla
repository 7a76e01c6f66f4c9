--------------------------------- MODULE Stse ---------------------------------
(***************************************************************************)
(* stse, the serialisation library: objects are written one after another  *)
(* into a buffer (serialize, serialize_advance), and read back from it     *)
(* (deserialize, deserialize_advance).  In native byte order an object is  *)
(* copied range by range along a layout computed at compile time; in the   *)
(* other order it is visited field by field.  In constant evaluation an    *)
(* object is copied flat by way of a bit_cast, which must not touch        *)
(* pointers: where there are any it is visited, down to objects without.   *)
(*                                                                         *)
(* A type is a tree of scalars, static containers and aggregates; what a   *)
(* template computes of a type is a function over the types.  A byte of an *)
(* object is modelled by where it came from.                               *)
(***************************************************************************)
EXTENDS Integers, FiniteSetsExt, SequencesExt

CONSTANTS
    Types,          \* the types of the objects and of all their parts
    ArgLists,       \* the lists of types whose objects are serialised
    MemorySize      \* bytes of memory modelled from the buffer's start on

VARIABLES
    args,           \* Args...: the types of the objects
    endianness,     \* "native" or "foreign"
    evaluated,      \* "run time", or "constant" for constant evaluation
    calls,          \* "whole" for serialize and deserialize, "advance" for
                    \* serialize_advance and deserialize_advance
    stage,          \* "serialize", then "deserialize"
    next,           \* the next object
    cursor,         \* write_ptr, and then read_ptr: an offset in the buffer
    wire,           \* the buffer, and the memory behind it
    parsed          \* the bytes of the objects deserialised into

callVars == <<args, endianness, evaluated, calls>>
vars == <<callVars, stage, next, cursor, wire, parsed>>

-----------------------------------------------------------------------------
(* Types.  Each carries what the compiler knows of it, its size and its    *)
(* alignment, and how deep templates have to go into it.                   *)

Scalar(size) ==
    [kind |-> "scalar", size |-> size, align |-> size, depth |-> 0, pointer |-> FALSE]

Pointer(size) == [Scalar(size) EXCEPT !.pointer = TRUE]

StaticContainer(value_type, length) ==
    [kind |-> "container", size |-> length * value_type.size, align |-> value_type.align,
     depth |-> value_type.depth + 1, value_type |-> value_type, length |-> length]

Aligned(offset, alignment) ==
    ((offset + alignment - 1) \div alignment) * alignment

(* Where each of the parts of an object ends: every one is put at the next *)
(* offset it is aligned at.                                                *)
Ends(parts) ==
    LET end[i \in 0 .. Len(parts)] ==
            IF i = 0 THEN 0 ELSE Aligned(end[i - 1], parts[i].align) + parts[i].size
    IN  end

(* The members an object has from a base at an offset.                     *)
Inherited(base, offset) ==
    [i \in DOMAIN base.members |-> [base.members[i] EXCEPT !.offset = @ + offset]]

(* An aggregate of bases and of members, each a type and an annotation:    *)
(* "none", "ignore" or "skip".  The compiler pads the size to a multiple   *)
(* of the alignment.  members is what all_data_members_of finds: the       *)
(* members of the bases, then the aggregate's own.  offset_of is the       *)
(* offset that std::meta::offset_of reports, from the start of the class   *)
(* that declares the member; offset is the one in the aggregate.           *)
Aggregate(bases, members) ==
    LET parts == bases \o [i \in DOMAIN members |-> members[i].type]
        align == Max({parts[i].align : i \in DOMAIN parts} \cup {1})
        end == Ends(parts)
        start(i) == end[i] - parts[i].size
        own(i) ==
            [type |-> members[i].type, mark |-> members[i].mark,
             offset_of |-> start(Len(bases) + i), offset |-> start(Len(bases) + i)]
    IN  [kind |-> "aggregate",
         size |-> IF parts = << >> THEN 1 ELSE Aligned(end[Len(parts)], align),
         align |-> align,
         depth |-> 1 + Max({parts[i].depth : i \in DOMAIN parts} \cup {0}),
         members |-> FlattenSeq([b \in DOMAIN bases |-> Inherited(bases[b], start(b))])
                     \o [i \in DOMAIN members |-> own(i)]]

(* The types a template recurs to.                                         *)
PartTypes(t) ==
    CASE t.kind = "scalar" -> {}
      [] t.kind = "container" -> {t.value_type}
      [] t.kind = "aggregate" -> {t.members[i].type : i \in DOMAIN t.members}

DataMembers ==
    [type : Types, mark : {"none", "ignore", "skip"}, offset_of : Nat, offset : Nat]

(* Whatever the compiler's layout, the data members of an object are in    *)
(* it, apart from each other, and the elements of a container one behind   *)
(* the other.                                                              *)
LaidOut(t) ==
    /\ t.kind \in {"scalar", "container", "aggregate"}
    /\ t.size \in Nat /\ t.depth \in Nat
    /\ \A p \in PartTypes(t) : p \in Types /\ p.depth < t.depth
    /\ t.kind = "scalar" => t.size > 0 /\ t.pointer \in BOOLEAN
    /\ t.kind = "container" => t.length \in Nat /\ t.length * t.value_type.size <= t.size
    /\ t.kind = "aggregate" =>
          /\ t.members \in Seq(DataMembers)
          /\ \A i \in DOMAIN t.members :
                /\ t.members[i].offset_of <= t.members[i].offset
                /\ t.members[i].offset + t.members[i].type.size <= t.size
          /\ \A i, j \in DOMAIN t.members :
                i # j => \/ t.members[i].offset + t.members[i].type.size <= t.members[j].offset
                         \/ t.members[j].offset + t.members[j].type.size <= t.members[i].offset

ASSUME TypesAssumption == \A t \in Types : LaidOut(t)

NonSkipped(m) == m.mark # "skip"

Serializable(m) == m.mark = "none"

(* Types the templates take; pointers may only be in members that are      *)
(* ignored or skipped.                                                     *)
IsSerializable[t \in Types] ==
    CASE t.kind = "scalar" -> ~t.pointer
      [] t.kind = "container" -> IsSerializable[t.value_type]
      [] t.kind = "aggregate" ->
            \A i \in DOMAIN t.members :
                Serializable(t.members[i]) => IsSerializable[t.members[i].type]

HasPointerMember[t \in Types] ==
    CASE t.kind = "scalar" -> t.pointer
      [] t.kind = "container" -> HasPointerMember[t.value_type]
      [] t.kind = "aggregate" ->
            \E i \in DOMAIN t.members : HasPointerMember[t.members[i].type]

(* The sum of the first n of the sizes.                                    *)
Total(sizes, n) ==
    LET sum[i \in 0 .. n] == IF i = 0 THEN 0 ELSE sum[i - 1] + sizes[i]
    IN  sum[n]

(* raw_size: the bytes an object takes up in the buffer.                   *)
RawSize[t \in Types] ==
    CASE t.kind = "scalar" -> t.size
      [] t.kind = "container" -> t.length * RawSize[t.value_type]
      [] t.kind = "aggregate" ->
            Total([i \in DOMAIN t.members |->
                      IF NonSkipped(t.members[i]) THEN RawSize[t.members[i].type] ELSE 0],
                  Len(t.members))

(* serial_size_v of a list of types, and of the first n of them.           *)
SerialSizeOf(types, n) == Total([i \in DOMAIN types |-> RawSize[types[i]]], n)

SerialSize(types) == SerialSizeOf(types, Len(types))

(* The buffers that calls are given hold the objects.                      *)
ASSUME ArgListsAssumption ==
    \A types \in ArgLists : types \in Seq(Types) /\ SerialSize(types) <= MemorySize

ASSUME MemoryAssumption == MemorySize \in Nat

(* current_wire when enumerate_aggregate comes to the j-th member.         *)
WireBefore(t, j) ==
    Total([i \in DOMAIN t.members |->
              IF NonSkipped(t.members[i]) THEN RawSize[t.members[i].type] ELSE 0], j - 1)

-----------------------------------------------------------------------------
(* The layout computed at compile time.                                    *)

(* Byte ranges of a part, in the object it is part of.                     *)
Placed(ranges, struct_offset, wire_offset) ==
    [i \in DOMAIN ranges |->
        [struct_offset |-> struct_offset + ranges[i].struct_offset,
         wire_offset |-> wire_offset + ranges[i].wire_offset,
         count |-> ranges[i].count]]

(* enumerate_object: the byte ranges of an object in the order they are    *)
(* visited.  An ignored member takes up room in the buffer but is not      *)
(* copied.                                                                 *)
Enumerate[t \in Types] ==
    CASE t.kind = "scalar" ->
            <<[struct_offset |-> 0, wire_offset |-> 0, count |-> RawSize[t]]>>
      [] t.kind = "container" ->
            FlattenSeq([i \in 1 .. t.length |->
                Placed(Enumerate[t.value_type], t.value_type.size * (i - 1),
                       t.value_type.size * (i - 1))])
      [] t.kind = "aggregate" ->
            FlattenSeq([j \in DOMAIN t.members |->
                IF Serializable(t.members[j])
                THEN Placed(Enumerate[t.members[j].type], t.members[j].offset_of,
                            WireBefore(t, j))
                ELSE << >>])

(* Mutant of Continues: only the places in the buffer are compared, as if  *)
(* objects had no padding.                                                 *)
ContinuesOnWire(r, last) ==
    r.wire_offset = last.wire_offset + last.count

(* A range that goes on where the last one ended, on both sides.           *)
Continues(r, last) ==
    /\ r.struct_offset = last.struct_offset + last.count
    /\ r.wire_offset = last.wire_offset + last.count

(* One range more: it is merged with the last one or put behind it.        *)
Compressed(ranges, r) ==
    LET n == Len(ranges)
    IN  IF n > 0 /\ Continues(r, ranges[n])
        THEN [ranges EXCEPT ![n].count = @ + r.count]
        ELSE Append(ranges, r)

CompressLayout(ranges) ==
    LET done[i \in 0 .. Len(ranges)] ==
            IF i = 0 THEN << >> ELSE Compressed(done[i - 1], ranges[i])
    IN  done[Len(ranges)]

ByteLayoutOf(t) == CompressLayout(Enumerate[t])

-----------------------------------------------------------------------------
(* The bytes moved between an object and the buffer, one after another:    *)
(* memory is the offset in the object, wire the one from the cursor on.    *)

FlatMoves(t) ==
    FlattenSeq([i \in DOMAIN ByteLayoutOf(t) |->
        LET r == ByteLayoutOf(t)[i]
        IN  [k \in 1 .. r.count |-> [memory |-> r.struct_offset + k - 1,
                                     wire |-> r.wire_offset + k - 1]]])

(* The moves of a part, in the object it is part of.                       *)
Moved(moves, memory, wire_offset) ==
    [k \in DOMAIN moves |-> [memory |-> memory + moves[k].memory,
                             wire |-> wire_offset + moves[k].wire]]

(* How a call copies: "flat", or by way of a bit_cast, or field by field   *)
(* with the bytes swapped.  Not swapping them, "fields", is what the       *)
(* properties compare with.                                                *)
Hows == {"flat", "bit_cast", "swapped", "fields"}

How ==
    IF endianness = "foreign" THEN "swapped"
    ELSE IF evaluated = "constant" THEN "bit_cast" ELSE "flat"

(* Mutant of Flat: every type is taken for BitCastSafe.                    *)
FlatAlways(t, how) == how \in {"flat", "bit_cast"}

Flat(t, how) == how = "flat" \/ (how = "bit_cast" /\ ~HasPointerMember[t])

(* serialize and deserialize of an object: flat, or by the functions for   *)
(* scalars, static containers and aggregates, which come back here for     *)
(* every part.  byteswap turns the bytes of a scalar round.                *)
Moves[t \in Types] ==
    [how \in Hows |->
        CASE Flat(t, how) -> FlatMoves(t)
          [] ~Flat(t, how) /\ t.kind = "scalar" ->
                [k \in 1 .. t.size |->
                    [memory |-> k - 1,
                     wire |-> IF how = "swapped" THEN t.size - k ELSE k - 1]]
          [] ~Flat(t, how) /\ t.kind = "container" ->
                FlattenSeq([i \in 1 .. t.length |->
                    Moved(Moves[t.value_type][how], t.value_type.size * (i - 1),
                          RawSize[t.value_type] * (i - 1))])
          [] ~Flat(t, how) /\ t.kind = "aggregate" ->
                FlattenSeq([j \in DOMAIN t.members |->
                    IF Serializable(t.members[j])
                    THEN Moved(Moves[t.members[j].type][how], t.members[j].offset,
                               WireBefore(t, j))
                    ELSE << >>])]

Fields(t) == Moves[t]["fields"]

Shifted(offsets, offset) == {offset + o : o \in offsets}

(* In constant evaluation a flat object is assigned as a whole, from bytes *)
(* that were zero.  (What padding is then, nobody can tell.)               *)
Assigned[t \in Types] ==
    CASE t.kind = "scalar" /\ t.pointer -> {}
      [] ~(t.kind = "scalar" /\ t.pointer) /\ Flat(t, "bit_cast") -> 0 .. t.size - 1
      [] ~Flat(t, "bit_cast") /\ t.kind = "container" ->
            UNION {Shifted(Assigned[t.value_type], t.value_type.size * (i - 1)) :
                      i \in 1 .. t.length}
      [] ~Flat(t, "bit_cast") /\ t.kind = "aggregate" ->
            UNION {Shifted(Assigned[t.members[i].type], t.members[i].offset) :
                      i \in {j \in DOMAIN t.members : Serializable(t.members[j])}}

-----------------------------------------------------------------------------
(* The calls.                                                              *)

Zero == <<0, 0>>
Old == <<0, 1>>

(* What is in a buffer or an object that a call has been given or made.    *)
Initially == IF calls = "whole" THEN Zero ELSE Old

(* serialize makes a buffer of zeroes and deserialize objects of zeroes,   *)
(* the other two are given them; write_ptr points to the buffer's start.   *)
Init ==
    /\ args \in {types \in ArgLists : \A i \in DOMAIN types : IsSerializable[types[i]]}
    /\ endianness \in {"native", "foreign"}
    /\ evaluated \in {"run time", "constant"}
    /\ calls \in {"whole", "advance"}
    /\ stage = "serialize"
    /\ next = 1
    /\ cursor = 0
    /\ wire = [a \in 0 .. MemorySize - 1 |-> Initially]
    /\ parsed = [i \in DOMAIN args |-> [o \in 0 .. args[i].size - 1 |-> Initially]]

(* bytes copied one after another to the places: the last one copied to a  *)
(* place stays there.                                                      *)
Copied(memory, places, bytes) ==
    [a \in DOMAIN memory |->
        LET there == {k \in DOMAIN places : places[k] = a}
        IN  IF there = {} THEN memory[a] ELSE bytes[Max(there)]]

(* Mutant of Advance: only past what is copied.                            *)
AdvanceCopied(t) == Len(Fields(t))

(* How far write_ptr and read_ptr move.                                    *)
Advance(t) == RawSize[t]

(* detail::serialize of one object.                                        *)
SerializeNext ==
    /\ stage = "serialize"
    /\ next <= Len(args)
    /\ LET moves == Moves[args[next]][How]
       IN  wire' = Copied(wire, [k \in DOMAIN moves |-> cursor + moves[k].wire],
                          [k \in DOMAIN moves |-> <<next, moves[k].memory>>])
    /\ cursor' = cursor + Advance(args[next])
    /\ next' = next + 1
    /\ UNCHANGED <<callVars, stage, parsed>>

(* The buffer is handed to the reader.                                     *)
HandOver ==
    /\ stage = "serialize"
    /\ next > Len(args)
    /\ stage' = "deserialize"
    /\ next' = 1
    /\ cursor' = 0
    /\ UNCHANGED <<callVars, wire, parsed>>

(* detail::deserialize of one object.                                      *)
DeserializeNext ==
    /\ stage = "deserialize"
    /\ next <= Len(args)
    /\ LET moves == Moves[args[next]][How]
           assigned == IF How = "bit_cast" THEN Assigned[args[next]] ELSE {}
           object == [o \in DOMAIN parsed[next] |->
                        IF o \in assigned THEN Zero ELSE parsed[next][o]]
       IN  parsed' = [parsed EXCEPT ![next] =
                         Copied(object, [k \in DOMAIN moves |-> moves[k].memory],
                                [k \in DOMAIN moves |-> wire[cursor + moves[k].wire]])]
    /\ cursor' = cursor + Advance(args[next])
    /\ next' = next + 1
    /\ UNCHANGED <<callVars, stage, wire>>

(* The reader has returned.                                                *)
Returned ==
    /\ stage = "deserialize"
    /\ next > Len(args)
    /\ UNCHANGED vars

Next ==
    \/ SerializeNext
    \/ HandOver
    \/ DeserializeNext
    \/ Returned

Spec == Init /\ [][Next]_vars

-----------------------------------------------------------------------------
(* schema                                                                  *)

(* The lines of a part, indented below those of the object.                *)
Indented(lines) == [j \in DOMAIN lines |-> [lines[j] EXCEPT !.depth = @ + 1]]

(* Mutant of Listed: ignored members are listed, too.                      *)
ListedNonSkipped(m) == NonSkipped(m)

(* The members that have a line.                                           *)
Listed(m) == Serializable(m)

(* generate_schema: a line for the type, and the lines of what it is made  *)
(* of, indented.  The element type of a container is listed once.          *)
Schema[t \in Types] ==
    <<[depth |-> 0, bytes |-> RawSize[t], type |-> t]>> \o
    CASE t.kind = "scalar" -> << >>
      [] t.kind = "container" -> Indented(Schema[t.value_type])
      [] t.kind = "aggregate" ->
            FlattenSeq([j \in DOMAIN t.members |->
                IF Listed(t.members[j]) THEN Indented(Schema[t.members[j].type])
                ELSE << >>])

-----------------------------------------------------------------------------
(* Properties.                                                             *)

(* The types whose flat layout is wrong: an element of a container takes   *)
(* up another number of bytes in the buffer than in memory, or a base with *)
(* members does not begin where the object does.                           *)
Misplaced[t \in Types] ==
    CASE t.kind = "scalar" -> FALSE
      [] t.kind = "container" ->
            \/ t.length > 0 /\ Misplaced[t.value_type]
            \/ /\ t.length > 1
               /\ t.value_type.size # RawSize[t.value_type]
               /\ Fields(t.value_type) # << >>
      [] t.kind = "aggregate" ->
            \E i \in DOMAIN t.members :
                LET m == t.members[i]
                IN  /\ Serializable(m) /\ Fields(m.type) # << >>
                    /\ Misplaced[m.type] \/ m.offset_of # m.offset

WellPlaced == endianness = "foreign" \/ \A i \in DOMAIN args : ~Misplaced[args[i]]

(* Copying along the compressed layout moves the same bytes to the same    *)
(* places as visiting the fields does, whichever of the two the compiler   *)
(* has to take; misplaced types are those for which it does not.           *)
OnlyMisplacedTypesDisagree ==
    \A i \in DOMAIN args :
        Range(FlatMoves(args[i])) # Range(Fields(args[i])) <=> Misplaced[args[i]]

(* Writing one object changes nothing but the bytes between the old and    *)
(* the new write_ptr: neither its neighbours nor what lies behind the      *)
(* buffer.                                                                 *)
WritesItsOwnBytes ==
    [][WellPlaced => \A a \in DOMAIN wire :
                     wire'[a] # wire[a] => cursor <= a /\ a < cursor']_vars

(* The offsets of an object's bytes that are on the wire.                  *)
OnWire(t) == {m.memory : m \in Range(Fields(t))}

(* What has been serialised is deserialised into the bytes it came from,   *)
(* and both directions have used up the whole buffer, whether they copy    *)
(* flat, by fields or, in constant evaluation, some of both.               *)
RoundTrip ==
    WellPlaced /\ next > Len(args) =>
        /\ cursor = SerialSize(args)
        /\ stage = "deserialize" =>
              \A i \in DOMAIN args : \A o \in OnWire(args[i]) : parsed[i][o] = <<i, o>>

(* The bytes of the scalars in an object, whatever their marks, apart from *)
(* those of pointers; the others are padding.                              *)
ScalarBytes[t \in Types] ==
    [pointer \in BOOLEAN |->
        CASE t.kind = "scalar" -> IF t.pointer = pointer THEN 0 .. t.size - 1 ELSE {}
          [] t.kind = "container" ->
                UNION {Shifted(ScalarBytes[t.value_type][pointer],
                               t.value_type.size * (i - 1)) : i \in 1 .. t.length}
          [] t.kind = "aggregate" ->
                UNION {Shifted(ScalarBytes[t.members[i].type][pointer],
                               t.members[i].offset) : i \in DOMAIN t.members}]

PointerBytes(t) == ScalarBytes[t][TRUE]

(* The offsets of the bytes of members that are ignored or skipped.        *)
LeftOut(t) == (ScalarBytes[t][TRUE] \cup ScalarBytes[t][FALSE]) \ OnWire(t)

(* Ignored and skipped members are never sent.  They keep their values at  *)
(* run time, and when bytes are swapped; where constant evaluation copies  *)
(* flat they are zero afterwards, but pointers are not assigned even then. *)
RestOfObject ==
    WellPlaced =>
        \A i \in DOMAIN args : \A o \in LeftOut(args[i]) :
            LET parsedFlat == /\ stage = "deserialize" /\ i < next
                              /\ evaluated = "constant" /\ endianness = "native"
            IN  /\ <<i, o>> \notin Range(wire)
                /\ ~parsedFlat \/ o \in PointerBytes(args[i]) => parsed[i][o] = Initially
                /\ parsedFlat /\ ~HasPointerMember[args[i]] => parsed[i][o] = Zero

(* The product of the first n of the numbers.                              *)
Product(numbers, n) ==
    LET product[i \in 0 .. n] == IF i = 0 THEN 1 ELSE product[i - 1] * numbers[i]
    IN  product[n]

(* How often a line of a schema stands for: once for each element of the   *)
(* containers it is in.                                                    *)
Times(lines, j) ==
    LET encloses(i) == /\ lines[i].type.kind = "container"
                       /\ \A k \in i + 1 .. j : lines[k].depth > lines[i].depth
    IN  Product([i \in 1 .. j - 1 |-> IF encloses(i) THEN lines[i].type.length ELSE 1], j - 1)

BytesListed(lines) ==
    Total([j \in DOMAIN lines |->
              IF lines[j].type.kind = "scalar" THEN lines[j].bytes * Times(lines, j) ELSE 0],
          Len(lines))

(* The scalars a schema lists are as many bytes as are copied.             *)
SchemaTellsWhatIsCopied ==
    \A i \in DOMAIN args : Cardinality(OnWire(args[i])) = BytesListed(Schema[args[i]])
===============================================================================
