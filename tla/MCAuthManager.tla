--------------------------- MODULE MCAuthManager ----------------------------
(***************************************************************************)
(* Constants for checking AuthManager: two threads, one user besides       *)
(* admin, two passwords, one table and the wildcard.                       *)
(***************************************************************************)
EXTENDS AuthManager

MCHash == [p \in Password |-> IF p = "admin" THEN 1 ELSE 2]

Create(role) == [op |-> "createUser", user |-> "bob", password |-> "pw", role |-> role]
Drop(name)   == [op |-> "dropUser", user |-> name]
Change(op, table, rights) ==
    [op |-> op, user |-> "bob", db |-> "a", table |-> table, rights |-> rights]
Check(name, right) ==
    [op |-> "check", user |-> name, db |-> "a", table |-> "t", right |-> right]

MCCalls == [t \in Threads |->
    {Create("READONLY"), Create("READWRITE"), Drop("bob"), Drop("admin"),
     Change("grant", "t", {"select", "insert"}), Change("revoke", "t", {"select"}),
     Change("grant", Any, {"delete"}),
     Check("bob", "select"), Check("admin", "delete"),
     [op |-> "authenticate", user |-> "bob", password |-> "pw"],
     [op |-> "getRole", user |-> "bob"], [op |-> "listUsers"]}]
=============================================================================
