------------------------------ MODULE MCDylib -------------------------------
(***************************************************************************)
(* Two functions of one module, the name of one the beginning of the       *)
(* other, three of other modules, one of a module that is no part of the   *)
(* dylib, and two libraries that each lack something.                      *)
(***************************************************************************)
EXTENDS Dylib

MCFn == {"async_stop", "async_stop_all", "meta_main_package", "deserialize_action", "static_actions"}
MCModuleOf ==
  [f \in MCFn |-> CASE f = "meta_main_package" -> "meta"
                    [] f = "deserialize_action" -> "serialize"
                    [] f = "static_actions" -> "static"
                    [] OTHER -> "async"]
MCPrefixOf == {<<"async_stop", "async_stop_all">>}
MCExports ==
  [l \in {"v1", "v2"} |-> IF l = "v1" THEN MCFn \ {"async_stop_all"} ELSE MCFn \ {"meta_main_package"}]
=============================================================================
