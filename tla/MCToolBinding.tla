--------------------------- MODULE MCToolBinding ---------------------------
(* Tools for two capabilities that differ in their parameters and results.   *)
EXTENDS ToolBinding

MCCatalog == [read |-> {"path"}, shell |-> {"command"}]

T(name, cap, params, defaulted, fields, returns, mapping) ==
  [name |-> name, capability |-> cap, params |-> params, defaulted |-> defaulted,
   fields |-> fields, returns |-> returns, mapping |-> mapping]

MCTools ==
  {T("text", "read", {"path"}, {}, [content |-> "str"], Unknown, TRUE),
   T("slice", "read", {"path", "offset"}, {"offset"},
     [content |-> "str", path |-> "str", lines |-> "int"], Unknown, TRUE),
   T("strict", "read", {"path", "offset"}, {}, [content |-> "str", done |-> "bool"], Unknown, TRUE),
   T("flag", "read", {"path"}, {}, [lines |-> "bool", names |-> "listed"], Unknown, TRUE),
   T("count", "read", {"path"}, {}, [lines |-> "int"], [lines |-> "int"], TRUE),
   T("liar", "read", {"path"}, {}, [content |-> "dict"], [content |-> "str"], TRUE),
   T("raw", "read", {"path"}, {}, Unknown, Unknown, FALSE),
   T("text", "shell", {"command"}, {}, [content |-> "str"], Unknown, TRUE),
   T("bad", "shell", {"cwd"}, {}, [content |-> "str"], Unknown, TRUE)}

W(name, type, optional) == [name |-> name, type |-> type, optional |-> optional]
MCStages ==
  [capability : {"read", "shell"}, args : {{"path"}, {"path", "offset"}, {"command"}},
   writes : {{}, {W("content", "string", FALSE)},
             {W("content", "string", FALSE), W("path", "path", FALSE)},
             {W("lines", "number", FALSE)},
             {W("lines", "number", TRUE), W("names", "string[]", FALSE)},
             {W("content", "json", FALSE), W("done", "bool", FALSE)},
             {W("content", "string", TRUE)}}]
=============================================================================
