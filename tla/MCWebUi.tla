------------------------------- MODULE MCWebUi -------------------------------
(***************************************************************************)
(* Two tokens and two files: a token that may write and one that may read  *)
(* the same file, that swap their parts, the reader with another file, or  *)
(* go when tokens.json is edited; the contents without t1 do not load.  In *)
(* each file there is c, of a type from before types were normalized; a    *)
(* can be created, and c be renamed to a or merged into it.                *)
(***************************************************************************)
EXTENDS WebUi, TLC

CONSTANTS t1, t2, f1, f2, a, c, x, y, bob, key

Raw(file, mode) == [file |-> file, mode |-> mode]
AllConfigs ==
    {t1 :> Raw(f1, "read-write") @@ t2 :> Raw(f1, None),
     t1 :> Raw(f2, "read-only") @@ t2 :> Raw(f1, "read-write"),
     t2 :> Raw(None, "read-write")}
RevokingConfigs == {t1 :> Raw(f1, "read-only"), t2 :> Raw(f1, "read-write")}

\* Types
PlainLower == "person" :> "person" @@ "Person" :> "person"
PlainTitle == "person" :> "Person" @@ "Person" :> "Person"
NoAliases == << >>

New(name, type) ==
    [name |-> name, type |-> type, facts |-> << >>, created |-> Now, updated |-> Now]
OnlyC == [entities |-> <<New(c, "person")>>, relations |-> << >>]

CreateA == {<<New(a, NoType)>>}
RelateA == {<<[from |-> a, to |-> c, type |-> "knows", created |-> None, updated |-> None]>>}
ObserveA == {<<[entity |-> a, text |-> x, from |-> None, to |-> None, supersedes |-> None]>>}
EditA == {<<a, x, y>>}
DeleteC == {{c}}
ForgetA == {{<<a, x>>}}
UnrelateA == {{<<a, c, "knows">>}}
MoveCToA == {<<c, a>>}
=============================================================================
