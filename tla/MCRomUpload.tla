----------------------------- MODULE MCRomUpload -----------------------------
(* TLC instance: two-bit bytes, a magic word of three bytes, payloads of up  *)
(* to three bytes, with one whose length byte ends a damaged magic word.     *)
EXTENDS RomUpload

MCXor(x, y) == (((x % 2) + (y % 2)) % 2) + 2 * (((x \div 2) + (y \div 2)) % 2)
MCMagic == <<1, 2, 3>>
MCRoms == {<<>>, <<2>>, <<3, 1>>, <<2, 2>>, <<0, 0, 2>>}
=============================================================================
