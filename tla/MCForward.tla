------------------------------ MODULE MCForward ------------------------------
(* How a program may run, with the prompts that reach its cases.           *)
EXTENDS Forward

Single(talker, cp, prompts) ==
    [batch |-> FALSE, helper |-> FALSE, talker |-> talker, cp |-> cp, prompts |-> prompts]
Batched(talker, cp, helper, prompts) ==
    [batch |-> TRUE, helper |-> helper, talker |-> talker, cp |-> cp, prompts |-> prompts]

\* A host cache grows in the prefill, or while it generates; a single
\* sequence on a device stays within DeviceKv (with longer prompts CacheRight
\* is violated: UploadKv); a batch refuses what is too long.
Refused == <<"a", "b", "b">>
Short == {<<"a">>, <<"b", "a">>}
Long == {<<"a">>, <<"a", "b", "a", "b">>, <<"b", "b", "a", "a", "b", "a">>}

MCModes ==
    {Single("host", "host", Long), Single("cuda", "cuda", Short),
     Single("metal", "metal", Short), Single("metal", "frame", Short)}
    \cup {Batched("host", "host", TRUE, Short \cup {Refused}), Batched("cuda", "cuda", TRUE, Short),
          Batched("metal", "metal", FALSE, {<<"a">>, Refused}), Batched("metal", "host", FALSE, Short)}

\* The modes are of those the theorems about Forward speak of.
ASSUME MCDeviceFits == DeviceFits
=============================================================================
