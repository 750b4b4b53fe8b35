--------------------------- MODULE MCStaticTyping ---------------------------
(* Expressions over two elements, a text node and a decimal; unsigned      *)
(* numbers have two bits, so that they wrap round.                         *)
EXTENDS StaticTyping

MCItems ==
  {[kind |-> "ELEMENT", id |-> 1], [kind |-> "ELEMENT", id |-> 2], [kind |-> "TEXT", id |-> 1],
   [kind |-> "DECIMAL", id |-> 1]}

MCDeclared ==
  [kinds : {{"ELEMENT"}, NODE, {"DECIMAL"}, ITEM},
   occurs : Indicators] \cup {[kinds |-> {}, occurs |-> ""]}
=============================================================================
