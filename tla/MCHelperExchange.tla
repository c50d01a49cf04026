-------------------------- MODULE MCHelperExchange --------------------------
(* A small instance of HelperExchange for TLC.                             *)
EXTENDS HelperExchange

\* One size below the limit, one at it and one above it.
ExchangeSizes == {MaxRequestBytes - 1, MaxRequestBytes, MaxRequestBytes + 1}
=============================================================================
