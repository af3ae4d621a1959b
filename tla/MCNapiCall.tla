----------------------------- MODULE MCNapiCall -----------------------------
(* One object, one buffer, and functions of each form; the methods of Crate can
   only be called on an object of another class. *)
EXTENDS NapiCall

CONSTANTS box, bytes

MCClassOf == [o \in Object |-> IF o = bytes THEN "buf" ELSE "Box"]

Sig(async, this, args, ret) == [async |-> async, this |-> this, args |-> args, ret |-> ret]

MCFn == {Sig(TRUE,  "Box",   <<"str", "Box">>, "Box"),
         Sig(TRUE,  Nothing, <<"buf", "str_no_free">>, "buf"),
         Sig(TRUE,  Nothing, <<"i32">>, "i32"),
         Sig(TRUE,  Nothing, <<"i64", "u64">>, "i64"),
         Sig(FALSE, Nothing, <<"str", "u32">>, "str_simple_craft"),
         Sig(FALSE, Nothing, <<"bool">>, "buf"),
         Sig(TRUE,  Nothing, <<>>, "str_simple_craft"),
         Sig(TRUE,  "Crate", <<>>, "void"),
         Sig(FALSE, "Box",   <<"Box">>, "Box"),
         Sig(FALSE, Nothing, <<>>, "void"),
         Sig(FALSE, "Crate", <<"str", "Crate">>, "void")}

MCPlain == {[kind |-> k, v |-> v] : k \in {"number", "bigint"}, v \in {-5, 3}}
              \cup {[kind |-> "boolean", v |-> 1], [kind |-> "string", v |-> 0]}
=============================================================================
