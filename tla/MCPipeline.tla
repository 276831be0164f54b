----------------------------- MODULE MCPipeline -----------------------------
EXTENDS Pipeline

MCName == <<"n">>

MCMnemonic ==
    [Ret |-> [op |-> 1, format |-> "N"],
     Ldia |-> [op |-> 2, format |-> "I"], Star |-> [op |-> 3, format |-> "R"],
     If |-> [op |-> 4, format |-> "RI"], Goto |-> [op |-> 5, format |-> "I"],
     Call |-> [op |-> 6, format |-> "I"], Mov |-> [op |-> 7, format |-> "RR"],
     Acmp |-> [op |-> 8, format |-> "RI"], MovRef |-> [op |-> 9, format |-> "RR"]]

MCRegisterNumber == [r0 |-> 0, r1 |-> 1, r2 |-> 2, r18 |-> 18]

Word0(t) == [type |-> t]
Id(n) == [type |-> "IDENTIFIER", value |-> n]
Num(n) == [type |-> "INTEGER", value |-> n]
Flt(w) == [type |-> "FLOAT", value |-> w]
Str(t) == [type |-> "STRING", value |-> t]
Comma == Word0("COMMA")

Fn(n, regs, args, body) ==
    <<Word0("FUNC"), Id(n), Num(regs), Num(args), Word0("OPEN")>>
        \o body \o <<Word0("CLOSE")>>

MainChunk ==
    {<<Id("Ret")>>,
     <<Id("Call"), Id("f")>>,
     <<Id("Call"), Id("g")>>,
     <<Id("Ldia"), Num(-7)>>,
     <<Id("Ldia"), Flt(5)>>,
     <<Id("Ldia"), Str(<<"a">>)>>,
     <<Id("Goto"), Num(2)>>,
     <<Id("Mov"), Id("r1"), Comma, Id("r18")>>,
     <<Id("If"), Id("r0"), Comma, Num(2)>>,
     <<Id("If"), Id("r0"), Comma, Num(-1)>>,
     <<Id("Acmp"), Id("r0"), Comma, Num(1)>>,
     <<Id("MovRef"), Id("r0"), Comma, Id("r1")>>,
     <<Id("If"), Id("r0"), Comma, Num(1), Id("Ret")>>,
     <<Id("Ldia"), Num(3), Id("If"), Id("r0"), Comma, Num(-1), Id("Ret")>>,
     <<Id("Star"), Id("r0")>>,
     <<Id("Star"), Num(1)>>,
     <<Id("Call"), Num(1)>>,
     <<Id("Foo")>>}

TopChunk ==
    {Fn("f", 1, 0, <<Id("Ret")>>),
     Fn("f", 17, 2, <<Id("Star"), Id("r0"), Id("Ret")>>),
     Fn("g", 2, 1, <<Id("Call"), Id("f"), Id("Ret")>>),
     Fn("g", 2, 0, <<>>),
     Fn("g", 2, 0, <<Comma>>),
     <<Word0("FUNC"), Id("f"), Num(1), Num(0), Word0("OPEN"), Id("Ret")>>,
     <<Word0("FUNC"), Word0("OPEN")>>,
     <<Word0("UNKNOWN")>>}

Chunks(S, n) == {FlattenSeq(s) : s \in BoundedSeq(S, n)}

MCSource == {m \o t : m \in Chunks(MainChunk, 2), t \in Chunks(TopChunk, 2)}
=============================================================================
