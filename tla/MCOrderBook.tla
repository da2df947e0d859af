---------------------------- MODULE MCOrderBook -----------------------------
(***************************************************************************)
(* A small instance of OrderBook.  Makers are interchangeable: orders are  *)
(* told apart by their ids, never by who placed them.                      *)
(***************************************************************************)
EXTENDS OrderBook, TLC

MCSymmetry == Permutations(Makers)
=============================================================================
