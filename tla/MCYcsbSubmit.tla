---------------------------- MODULE MCYcsbSubmit -----------------------------
(***************************************************************************)
(* YcsbSubmit for TLC: two transactions of two pieces, two fields.  The    *)
(* pieces of the first transaction have every combination of types, those  *)
(* of the second the two types that follow them.                           *)
(***************************************************************************)
EXTENDS YcsbSubmit

Types == <<"READ", "FULL_READ", "UPDATE", "READ_MODIFY_WRITE", "FULL_READ_MODIFY_WRITE", "INSERT">>

Piece(n, rec, field) == [rec |-> rec, field |-> field, type |-> Types[(n % 6) + 1]]

MCParams ==
  { [t \in Txns |->
       IF t = 0 THEN [p \in Pieces |-> IF p = 0 THEN Piece(m, 0, 1) ELSE Piece(n, 1, 0)]
                ELSE [p \in Pieces |-> IF p = 0 THEN Piece(n + 1, 1, 1) ELSE Piece(m + n, 2, 0)]]
    : m, n \in 0 .. 5 }
=============================================================================
