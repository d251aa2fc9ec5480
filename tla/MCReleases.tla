----------------------------- MODULE MCReleases ------------------------------
(* Releases with declarations taken from Ops.td, Types.td and              *)
(* AttrDefs.td, cut down to one of every kind of field; "evolved" and      *)
(* "later" are those of the test declarations.                             *)
EXTENDS Releases

Data(name, since) == [name |-> name, kind |-> "data", optional |-> FALSE, since |-> since]
Part(name) == [name |-> name, kind |-> "type", optional |-> FALSE, since |-> 1]
EnumParam(name, since) == [name |-> name, kind |-> "enum", optional |-> TRUE, since |-> since]
Declared(since, params) == [since |-> since, params |-> params, reversed |-> FALSE]

MCTypeDecls ==
    ("i32" :> Declared(1, <<>>)) @@ ("f8" :> Declared(2, <<>>)) @@ ("i4" :> Declared(3, <<>>))
    @@ ("ptr" :> Declared(1, <<Part("pointee"), EnumParam("attr", 4)>>))
    @@ ("tile" :> [Declared(1, <<Data("shape", 1), Part("element")>>) EXCEPT !.reversed = TRUE])
    @@ ("view" :> Declared(1, <<Data("shape", 1), Part("of"), EnumParam("padding", 1)>>))
    @@ ("later" :> Declared(1, <<Data("base", 1), Data("added", 3)>>))
    @@ ("token" :> Declared(1, <<>>))

Of(decl, args) == [decl |-> decl, args |-> args]
TileOf(t) == Of("tile", ("shape" :> "s") @@ ("element" :> t))
MCTypes ==
    ("i32" :> Of("i32", <<>>)) @@ ("f8" :> Of("f8", <<>>)) @@ ("i4" :> Of("i4", <<>>))
    @@ ("token" :> Of("token", <<>>))
    @@ ("tileI32" :> TileOf("i32")) @@ ("tileF8" :> TileOf("f8")) @@ ("tileI4" :> TileOf("i4"))
    @@ ("ptr" :> Of("ptr", "pointee" :> "i32"))
    @@ ("ptrGlobal" :> Of("ptr", ("pointee" :> "i32") @@ ("attr" :> "global")))
    @@ ("view" :> Of("view", ("shape" :> "s") @@ ("of" :> "tileI32")))
    @@ ("viewPadded" :> Of("view", ("shape" :> "s") @@ ("of" :> "tileI32") @@ ("padding" :> "zero")))
    @@ ("later" :> Of("later", ("base" :> "s") @@ ("added" :> "none")))
    @@ ("laterSet" :> Of("later", ("base" :> "s") @@ ("added" :> "s")))
MCCases == ("global" :> 4) @@ ("zero" :> 1)

Param(name, optional, since) == [name |-> name, optional |-> optional, since |-> since]
MCAttrDecls ==
    ("divBy" :> [since |-> 1, requiredFirst |-> TRUE,
                 params |-> <<Param("divisor", FALSE, 1), Param("every", TRUE, 1)>>])
    @@ ("evolved" :> [since |-> 1, requiredFirst |-> FALSE,
                      params |-> <<Param("base", FALSE, 1), Param("hint", TRUE, 1),
                                   Param("added", TRUE, 3)>>])

Plain(kind, since) ==
    [kind |-> kind, since |-> since, decl |-> "none", has |-> {}, type |-> "none"]
Record(decl, has) == [Plain("record", 1) EXCEPT !.decl = decl, !.has = has]
MCValues ==
    ("fallback" :> Plain("data", 1)) @@ ("data" :> Plain("data", 1))
    @@ ("dense" :> [Plain("data", 1) EXCEPT !.type = "tileI32"])
    @@ ("near" :> Plain("enum", 1)) @@ ("away" :> Plain("enum", 4))
    @@ ("div" :> Record("divBy", {})) @@ ("divEvery" :> Record("divBy", {"every"}))
    @@ ("evolvedHint" :> Record("evolved", {"hint"}))
    @@ ("evolvedAdded" :> Record("evolved", {"added"}))

-----------------------------------------------------------------------------
Field(name, form, since) ==
    [name |-> name, form |-> form, since |-> since, optional |-> form \in {"optional", "unit"},
     fallback |-> "none", of |-> "none"]
WithDefault(name, since) == [Field(name, "required", since) EXCEPT !.fallback = "default"]
Declares(since, opcode, attributes, operands, results) ==
    [since |-> since, opcode |-> opcode, sized |-> FALSE, results |-> results,
     attributes |-> attributes, operands |-> operands, regions |-> 0]
Sized(d) == [d EXCEPT !.sized = TRUE]

MCOpDecls ==
    ("constant" :> Declares(1, 10, <<Field("value", "required", 1)>>, <<>>,
                            <<Field("result", "required", 1)>>))
    @@ ("for" :> [Declares(1, 20, <<Field("unsignedCmp", "unit", 2)>>,
                     <<Field("bound", "required", 1), Field("init", "variadic", 1)>>,
                     <<Field("results", "variadic", 1)>>) EXCEPT !.regions = 1])
    @@ ("load" :> Sized(Declares(1, 30,
                     <<Field("ordering", "required", 1), Field("scope", "optional", 1)>>,
                     <<Field("source", "required", 1), Field("mask", "optional", 1),
                       Field("token", "optional", 1)>>,
                     <<Field("result", "required", 1), Field("result_token", "required", 1)>>)))
    @@ ("print" :> Sized(Declares(1, 40, <<Field("str", "required", 1)>>,
                     <<Field("args", "variadic", 1), Field("token", "optional", 2)>>,
                     <<Field("result_token", "required", 2)>>)))
    @@ ("trunci" :> Declares(1, 50, <<WithDefault("overflow", 2)>>,
                     <<Field("from", "required", 1)>>, <<Field("result", "required", 1)>>))
    @@ ("ftof" :> Declares(1, 60, <<Field("saturating", "unit", 4), Field("rounding", "required", 1)>>,
                     <<Field("from", "required", 1)>>, <<Field("result", "required", 1)>>))
    @@ ("load_view" :> Sized(Declares(1, 70,
                     <<[Field("inbounds", "required", 4) EXCEPT !.fallback = "rank", !.of = "index"],
                       Field("hints", "optional", 1)>>,
                     <<Field("view", "required", 1), Field("index", "variadic", 1),
                       Field("token", "optional", 1)>>,
                     <<Field("result", "required", 1)>>)))
    @@ ("evolution" :> Sized(Declares(1, 80,
                     <<Field("added", "optional", 3), Field("base", "optional", 1)>>,
                     <<Field("in", "optional", 1), Field("in2", "optional", 2)>>, <<>>)))
    @@ ("alloca" :> Declares(3, 90, <<Field("global", "unit", 3)>>, <<>>,
                     <<Field("result", "required", 3)>>))

Instance(op, attributes, operands, results) ==
    [op |-> op, attributes |-> attributes, operands |-> operands, results |-> results,
     arguments |-> <<>>]
None == <<>>
ForLoop(attributes, init, results, entry) ==
    [Instance("for", attributes, ("bound" :> <<"tileI32">>) @@ ("init" :> init),
              "results" :> results) EXCEPT !.arguments = entry]
Load(attributes, source, mask, token) ==
    Instance("load", attributes, ("source" :> <<source>>) @@ ("mask" :> mask) @@ ("token" :> token),
             ("result" :> <<"tileI32">>) @@ ("result_token" :> <<"token">>))
PrintOp(args, token) ==
    Instance("print", "str" :> "data", ("args" :> args) @@ ("token" :> token),
             "result_token" :> <<"token">>)
Cast(op, attributes, to) == Instance(op, attributes, "from" :> <<"tileI32">>, "result" :> <<to>>)
LoadView(attributes, view, index, token) ==
    Instance("load_view", attributes,
             ("view" :> <<view>>) @@ ("index" :> index) @@ ("token" :> token),
             "result" :> <<"tileI32">>)
Evolution(attributes, in, in2) == Instance("evolution", attributes, ("in" :> in) @@ ("in2" :> in2), None)

Operations ==
    { Instance("constant", "value" :> "dense", None, "result" :> <<"tileI32">>),
      ForLoop(None, <<>>, <<>>, <<"tileI32">>),
      ForLoop("unsignedCmp" :> "fallback", <<"tileI32">>, <<"tileI32">>, <<"tileI32">>),
      ForLoop(None, <<>>, <<>>, <<"tileI4">>),
      Load("ordering" :> "near", "ptr", <<>>, <<"token">>),
      Load(("ordering" :> "near") @@ ("scope" :> "near"), "ptrGlobal", <<"tileI32">>, <<>>),
      PrintOp(<<>>, <<>>), PrintOp(<<"tileI32">>, <<"token">>),
      Cast("trunci", "overflow" :> "fallback", "tileI32"),
      Cast("trunci", "overflow" :> "data", "tileI4"),
      Cast("ftof", "rounding" :> "near", "tileF8"),
      Cast("ftof", ("rounding" :> "away") @@ ("saturating" :> "fallback"), "tileI32"),
      LoadView(("inbounds" :> "fallback") @@ ("hints" :> "div"), "view", <<"tileI32">>, <<>>),
      LoadView(("inbounds" :> "data") @@ ("hints" :> "evolvedAdded"), "viewPadded", <<>>, <<"token">>),
      LoadView(("inbounds" :> "fallback") @@ ("hints" :> "divEvery"), "viewPadded",
               <<"tileI32", "tileI32">>, <<>>),
      Evolution("base" :> "evolvedHint", <<>>, <<"tileI32">>),
      Evolution(("base" :> "data") @@ ("added" :> "data"), <<"tileI32">>, <<>>),
      Instance("alloca", "global" :> "fallback", None, "result" :> <<"ptr">>) }
Consumers ==
    { Cast("trunci", "overflow" :> "fallback", "tileI32"),
      ForLoop(None, <<"tileI32">>, <<"tileI32">>, <<"tileI4">>),
      Load("ordering" :> "near", "ptr", <<>>, <<"token">>) }
MCInstances == <<Operations, Operations, Consumers>>
MCSignatures ==
    { <<"tileI32", "ptr", "viewPadded", "view">>, <<"ptrGlobal", "tileI32", "later">>,
      <<"laterSet", "tileI32">> }
=============================================================================
