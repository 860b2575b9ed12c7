----------------------------- MODULE MCDBConnection -----------------------------
(***************************************************************************)
(* The messages of the runs of DBConnection.                               *)
(***************************************************************************)
EXTENDS DBConnection, TLC

CONSTANTS u1, u2, p1, p2, p3, f1, f2, f3

Message(op, user, pass, ver, files) ==
  [op |-> op, user |-> user, pass |-> pass, ver |-> ver, files |-> files]
Register(u, p) == Message("register", u, p, 0, {})
Login(u, p) == Message("login", u, p, 0, {})
Last(u, p) == Message("last", u, p, 0, {})
NewVersion(u, n, files) == Message("commit", u, Nobody, n, files)

\* Every kind of request, among them logins with a right and a wrong password
\* and two commits of one number, but no second registration.
OneName == {Register(u1, p1), Login(u1, p1), Login(u1, p2), Last(u1, p1),
            NewVersion(u1, 1, {f1, f2}), NewVersion(u1, 1, {f3})}

\* Two registrations of one name and one of another.
Registrations == {Register(u1, p1), Register(u2, p2), Register(u1, p3)}

TwoExecutors == Permutations(Executors)
================================================================================
