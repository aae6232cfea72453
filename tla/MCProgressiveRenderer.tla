----------------------- MODULE MCProgressiveRenderer -----------------------
(* Small pages for ProgressiveRenderer.                                    *)
EXTENDS ProgressiveRenderer, TLC

CONSTANTS a, b, c

MCImages == {a, b, c}

(* A JBIG2 image, a JPEG 2000 image with a mask, a broken one, and the one *)
(* that an edit puts in their place.                                       *)
Stream(size, mask, steps, jpx, good) ==
    [size |-> size, mask |-> mask, steps |-> steps, jpx |-> jpx, good |-> good]
MCStreamInfo ==
    << Stream(2, 0, 2, FALSE, TRUE), Stream(4, 1, 0, TRUE, TRUE),
       Stream(1, 0, 1, FALSE, FALSE), Stream(3, 1, 0, FALSE, TRUE) >>
MCStreams == DOMAIN MCStreamInfo
MCFirstStream == (a :> 1) @@ (b :> 2) @@ (c :> 3)

Obj(kind, image, visible, hidden) ==
    [kind |-> kind, image |-> image, visible |-> visible, hidden |-> hidden]
Image(i) == Obj("image", i, TRUE, FALSE)
Path == Obj("path", Nothing, TRUE, FALSE)
Form(i) == Obj("form", i, TRUE, FALSE)
Off(i) == Obj("image", i, FALSE, FALSE)
Hidden(i) == Obj("image", i, FALSE, TRUE)

(* Behind a form the cache is not optimized: the hidden image behind the   *)
(* form finds more in it than the limit.                                   *)
MCPages == { << <<Image(a), Path, Image(b)>>, <<Off(c), Image(a)>> >>,
             << <<Form(a), Image(b)>>, <<>>, <<Image(c), Image(b)>> >>,
             << <<Form(b), Form(a), Hidden(c), Image(a)>> >> }
=============================================================================
