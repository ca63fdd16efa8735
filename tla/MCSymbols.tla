------------------------------- MODULE MCSymbols -------------------------------
(* Two shares of one company and one of another, for TLC.  The built-in list has
   not got the common share. *)
EXTENDS Symbols, TLC

CONSTANTS market, market2, common, preferred, other

Share(c) == [market |-> market, code |-> c]

MCCommonOf == [c \in Code |-> IF c = preferred THEN common ELSE c]
MCKrx == {Share(common), Share(preferred), Share(other)}
MCFallback == {Share(preferred), Share(other)}

SymbolSymmetry == Permutations(User) \cup Permutations(Request)
=============================================================================
