---------------------------- MODULE MCMinVersion -----------------------------
(* Releases with the global operation: it has no operands and no results,  *)
(* the type of its variable is that of its value.                          *)
EXTENDS MCReleases

GlobalTypes == MCTypes @@ ("e5m3" :> Of("e5m3", <<>>)) @@ ("tileE5M3" :> TileOf("e5m3"))
GlobalTypeDecls == MCTypeDecls @@ ("e5m3" :> Declared(4, <<>>))
GlobalValues == MCValues @@ ("denseE5M3" :> [Plain("data", 1) EXCEPT !.type = "tileE5M3"])
GlobalOpDecls ==
    MCOpDecls @@ ("global" :> Declares(1, 35,
        <<Field("sym_name", "required", 1), Field("value", "required", 1),
          Field("constant", "unit", 3), WithDefault("symbol_visibility", 3)>>, <<>>, <<>>))

Global(value, others) ==
    Instance("global", ("sym_name" :> "data") @@ ("value" :> value)
                        @@ ("symbol_visibility" :> "fallback") @@ others, None, None)
Globals == { Global("dense", None), Global("dense", "constant" :> "fallback"),
             Global("denseE5M3", None) }
Constants == { Instance("constant", "value" :> "dense", None, "result" :> <<"tileI32">>) }
GlobalInstances == <<Globals, Constants>>
GlobalSignatures == {<<>>}
=============================================================================
