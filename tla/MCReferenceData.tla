--------------------------- MODULE MCReferenceData ---------------------------
(***************************************************************************)
(* Small instances of ReferenceData for TLC: a database with one currency, *)
(* clients that ask for what other clients or the script ask for too.      *)
(***************************************************************************)
EXTENDS ReferenceData

CONSTANTS s1, s2, s3

MCCurrency(code) == [kind |-> "currency", by |-> "client", code |-> code]
MCAccount(code, name, currency) ==
  [kind |-> "account", by |-> "client", code |-> code, name |-> name, currency |-> currency]
MCRate(from, to) ==
  [kind |-> "rate", by |-> "client", from |-> from, to |-> to, date |-> 1]

MCInitial == << [kind |-> "currency", by |-> "initial", code |-> "EUR"] >>

\* The script's address; its currency; two accounts that cross its own, and one
\* with the name of the first; a rate whose currency may be missing.
MCRequests ==
  {[kind |-> "user", by |-> "client", email |-> "demo"],
   MCCurrency("USD"),
   MCAccount("1000", "Revenue", "EUR"),
   MCAccount("2000", "Revenue", "USD"),
   MCRate("EUR", "USD")}

MCDuplicates == {MCCurrency("USD")}
=============================================================================
