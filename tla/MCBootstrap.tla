---------------------------- MODULE MCBootstrap -----------------------------
(* Bootstrap for TLC: three menus, two of them with a permission, of which the *)
(* one is open (is_intercept 0), and tables that are empty at first.           *)
EXTENDS Bootstrap

Row(t, n) == <<t, n>>
Rows(t, n) == {Row(t, i) : i \in 1 .. n}

AdminIds == Rows("a", 2)
RoleIds  == Rows("r", 1 + MaxEdits)
MenuIds  == Rows("m", 3 + MaxEdits)
PermIds  == Rows("p", 2 + MaxEdits)
Admin1   == Row("a", 1)
Role1    == Row("r", 1)
OnlyBuiltin == {Admin1}

Menu(c, under, perms) == [code |-> c, under |-> under, perms |-> perms]
SmallTree ==
    <<Menu("home", 0, <<>>),
      Menu("users", 1, <<[rt |-> "get", intercept |-> FALSE]>>),
      Menu("keys", 2, <<[rt |-> "put", intercept |-> TRUE]>>)>>
NoMenu == Row("m", 0)
NothingYet ==
    [adminRole |-> {}, roleMenu |-> {}, menuPerm |-> {}, covers |-> [p \in Perms |-> Routes]]

=============================================================================
