--------------------------- MODULE MCPreviewSync ---------------------------
(* Texts of one and two pages that share pages, one of which is broken.    *)
EXTENDS PreviewSync

MCPages == {"a", "b", "c", "d"}

Plain == <<"a", "b">>
Other == <<"c", "b">>
Third == <<"c", "d">>
Short == <<"c">>

ThreeTexts == {Plain, Other, Short}
TwoPages   == {Plain, Other, Third}
OneBroken  == {Other}
=============================================================================
