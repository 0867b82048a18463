---------------------------- MODULE MCMediaStore ----------------------------
(* Model-checking instance of MediaStore: two attachments of known sizes,  *)
(* a contact (no size, no key) and a link preview (nothing to download).    *)
EXTENDS MediaStore, TLC

CONSTANTS photo, document, contact, preview

MCAttachments == {photo, document, contact, preview}
MCBytes == (photo :> 1) @@ (document :> 2) @@ (contact :> 3) @@ (preview :> 4)
MCUnsized == {contact, preview}
MCFirst == (1 :> document) @@ (2 :> preview)
=============================================================================
