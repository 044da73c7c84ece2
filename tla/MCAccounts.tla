----------------------------- MODULE MCAccounts -----------------------------
EXTENDS Accounts, TLC

CONSTANTS ada, bob

(* A request: who sends it (by, with the key if not 0), about which user,    *)
(* session or key (ref), with which password and new value.                  *)
ThreadSymmetry == Permutations(Threads)

Request(id, kind) == [id |-> id, kind |-> kind, by |-> ada, key |-> 0, user |-> ada, ref |-> 0,
                      pw |-> 0, new |-> 0, role |-> "keep", active |-> "keep", scopes |-> {}]

Login(id, pw) == [Request(id, "login") EXCEPT !.pw = pw]
Refresh(id, s) == [Request(id, "refresh") EXCEPT !.ref = s]
Password(id, pw) == [Request(id, "password") EXCEPT !.pw = pw, !.new = 1]
Update(id, by, key, user, role, active) ==
    [Request(id, "update_user") EXCEPT !.by = by, !.key = key, !.user = user,
                                  !.role = role, !.active = active]
Create(id, kind, role) == [Request(id, kind) EXCEPT !.user = bob, !.role = role]
Key(id, scopes, ttl) == [Request(id, "create_key") EXCEPT !.scopes = scopes, !.new = ttl]

Scenario(admins, requests) == [admins |-> admins, requests |-> requests]

MCScenarios == {
    \* three wrong passwords and two right ones, one in a change of password
    Scenario({ada}, {Login(1, 2), Login(2, 2), Login(3, 2), Login(4, 0), Password(5, 0)}),
    \* the same token from three clients, and a logout
    Scenario({ada}, {Login(1, 0), Refresh(2, 1), Refresh(3, 1), Refresh(4, 1),
                     [Request(5, "logout") EXCEPT !.ref = 1]}),
    \* a change of password against logins and a rotation
    Scenario({ada}, {Login(1, 0), Login(2, 0), Login(3, 1), Refresh(4, 1), Password(5, 0)}),
    \* a deactivation against logins and a rotation
    Scenario({ada, bob}, {Login(1, 0), Login(2, 0), Refresh(3, 1), Request(4, "logout_all"),
                          Update(5, bob, 0, ada, "keep", "no")}),
    \* two administrators change each other, themselves, and a role nobody has
    Scenario({ada, bob}, {Update(1, ada, 0, bob, "viewer", "keep"),
                          Update(2, bob, 0, ada, "viewer", "no"),
                          Update(3, bob, 0, bob, "viewer", "keep"),
                          Update(4, bob, 0, ada, "owner", "yes")}),
    \* accounts created twice, and with a role nobody has
    Scenario({ada}, {Create(1, "create_user", "admin"), Create(2, "register", "viewer"),
                     Create(3, "create_user", "owner"),
                     Update(4, bob, 0, ada, "viewer", "keep"),
                     Update(5, ada, 0, bob, "viewer", "keep")}),
    \* keys, scoped and not, used for an update and revoked
    Scenario({ada, bob}, {Key(1, {"read"}, 2), Key(2, {}, 1),
                          Update(3, ada, 1, bob, "viewer", "keep"),
                          Update(4, ada, 2, bob, "keep", "no"),
                          [Request(5, "revoke_key") EXCEPT !.ref = 2]})}
=============================================================================
