-------------------------- MODULE MCTextureTransfer --------------------------
(* Texture ids 2 and 3, widths 1 and 2 where 2 is the width of the atlas.  *)
EXTENDS TextureTransfer
============================================================================
