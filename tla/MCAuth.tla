------------------------------- MODULE MCAuth -------------------------------
(* Registrations of one name with two passwords and two captchas, and      *)
(* logins that know the first password and have solved either captcha.     *)
EXTENDS Auth

CONSTANTS c1, c2, alice, pass1, pass2, cap1, cap2

Ask(kind, password, captcha) ==
  [kind |-> kind, username |-> alice, password |-> password, captcha |-> captcha]

Registrations == {Ask("register", pass1, cap1), Ask("register", pass2, cap2)}
MCRequests == Registrations \cup {Ask("login", pass1, k) : k \in {cap1, cap2}}
=============================================================================
