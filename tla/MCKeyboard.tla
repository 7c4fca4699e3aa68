------------------------------ MODULE MCKeyboard ------------------------------
(* The keyboard driver: three readers and two letters; while no task reads,    *)
(* also the keys the handler treats each in its own way.                       *)
EXTENDS Keyboard, TLC

CONSTANTS a, b, c

Columns(p, s) == [plain |-> p, shifted |-> s]
MCByte == {"1", "/"}
MCKey == {"a", "slash", "lshift", "rshift", "capslock", "numlock"}
MCKeymap == [k \in Key |-> CASE k = "a"     -> Columns("1", "/")
                             [] k = "slash" -> Columns("/", INV)
                             [] OTHER       -> Columns(INV, INV)]

MCLetters == {<<"a", 2>>, <<"slash", 2>>}
MCPhysical ==
  MCLetters \cup {<<"slash", 3>>, <<"capslock", 2>>, <<Bad, 3>>}
MCTask == {a, b, c}
Symmetry == Permutations(MCTask)
=============================================================================
