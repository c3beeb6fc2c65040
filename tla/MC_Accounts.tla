----------------------------- MODULE MC_Accounts -----------------------------
(* Instances of Accounts for TLC. *)
EXTENDS Accounts, TLC

CONSTANTS c1, c2, c3

ThreeCalls == {c1, c2, c3}

User(status, verified, token) ==
  [status |-> status, verified |-> verified, role |-> status # "none",
   password |-> status # "none", token |-> token, linked |-> FALSE]

Start(k1, k2, k3, user) ==
  [kind |-> c1 :> k1 @@ c2 :> k2 @@ c3 :> k3, account |-> user]

\* A user who has verified the address, nobody, and a user who has the mail.
SomeStarts ==
  { Start("good", "good", "bad", User("active", TRUE, "used")),
    Start("register", "register", "oauth", User("none", FALSE, "none")),
    Start("good", "verify", "suspend", User("pending", FALSE, "mailed")),
    Start("oauth", "good", "activate", User("pending", FALSE, "mailed")) }
=============================================================================
