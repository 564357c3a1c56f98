--------------------------- MODULE RegisterLayout ---------------------------
(***************************************************************************)
(* What the generated functions setreg_<register> and getreg_<register> of *)
(* a sensor chip have in common: each is the layout of one 16-bit register.*)
(* The setter asserts that every value fits its field, asks the getter for *)
(* the fields that are not given, and packs all of them into a word; the   *)
(* getter unpacks the word it reads.                                       *)
(*                                                                         *)
(* A word, and the value of a field, is the set of its bits that are 1.    *)
(***************************************************************************)
EXTENDS Integers

Word == 0..15

\* "<field>  [low + width - 1 : low]" of a docstring
F(name, low, width) == [name |-> name, low |-> low, width |-> width]

\* A register with a setter and a getter; one with a getter only.
Register(addr, fields) == [addr |-> addr, fields |-> fields, writable |-> TRUE]
Status(addr, fields) == [addr |-> addr, fields |-> fields, writable |-> FALSE]

BitsOf(f) == 0..(f.width - 1)

\* assert <field> | mask == mask; a chip mode has to be one of the enumeration.
Fits(values) == \A f \in DOMAIN values :
  /\ values[f] \subseteq BitsOf(f)
  /\ f.name = "ChipModeSelector" => values[f] # {0, 1}

\* datawrite = ((<field> & mask) << low) | ...
Pack(values) ==
  UNION {{f.low + b : b \in values[f] \cap BitsOf(f)} : f \in DOMAIN values}

\* ret["<field>"] = (dataread >> low) & mask
Unpack(reg, word) == [f \in reg.fields |-> {b \in BitsOf(f) : f.low + b \in word}]

\* Keyword arguments by name: the fields of reg they give.
Given(reg, args) ==
  [f \in {g \in reg.fields : g.name \in DOMAIN args} |-> args[f.name]]

=============================================================================
