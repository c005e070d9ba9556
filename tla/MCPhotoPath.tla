----------------------------- MODULE MCPhotoPath -----------------------------
(* Photos for PhotoPath: one plain photo, and families of others that vary  *)
(* the file, the image, the predictions, the face crop or the hash image.   *)
EXTENDS PhotoPath

Size(w, h) == [width |-> w, height |-> h, turned |-> FALSE]

At(x, y, w, h) == [x |-> x, y |-> y, width |-> w, height |-> h]

Grey(w, h, rows) == [width |-> w, height |-> h,
                     pixels |-> [i \in 0 .. w * h - 1 |->
                                   rows[(i \div w) + 1][(i % w) + 1]]]

Flat == Grey(4, 3, <<<<5, 5, 5, 5>>, <<5, 5, 5, 5>>, <<5, 5, 5, 5>>>>)
Edge == Grey(4, 3, <<<<0, 0, 9, 9>>, <<0, 0, 9, 9>>, <<0, 0, 9, 9>>>>)

Other == [magic |-> "other", boxSize |-> 0, fields |-> <<"x", "x", "x", "x">>]
Signed(magic) == [Other EXCEPT !.magic = magic]
Ftyp(size, fields) == [magic |-> "ftyp", boxSize |-> size, fields |-> fields]

With(photo_, head) == [photo_ EXCEPT !.magic = head.magic, !.boxSize = head.boxSize,
                                     !.fields = head.fields]

Plain == [extension |-> ".jpg", mimeType |-> "image/jpeg", opens |-> TRUE, bytes |-> 50,
          magic |-> "JPEG", boxSize |-> 0, fields |-> <<"x", "x", "x", "x">>,
          images |-> <<Size(16, 12)>>, decodes |-> TRUE,
          predictions |-> <<[box |-> At(1, 1, 4, 4), score |-> 80]>>,
          crop |-> Edge, thumb |-> Grey(3, 2, <<<<0, 0, 0>>, <<0, 0, 0>>>>)]

(* Brands in the box, beyond it, beyond the bytes sniffed (24), as minor    *)
(* version, and in boxes that declare too little or too much.               *)
Heads == {Signed("JPEG"), Signed("PNG"), Other,
          Ftyp(24, <<"heic", "0", "mif1", "heic">>), Ftyp(24, <<"mif1", "0", "heix", "x">>),
          Ftyp(24, <<"mif1", "0", "avif", "heic">>), Ftyp(20, <<"avif", "0", "mif1", "heic">>),
          Ftyp(24, <<"avif", "heic", "mif1", "x">>), Ftyp(0, <<"heic", "0", "x", "x">>),
          Ftyp(28, <<"mif1", "0", "x", "x", "heic">>), Ftyp(99, <<"mif1", "0", "x", "heic">>),
          Ftyp(1, <<"mif1", "0", "heic", "x">>)}

Files == {With([Plain EXCEPT !.extension = e, !.mimeType = m, !.opens = o, !.bytes = b], h) :
            e \in {".jpg", ".txt", ""}, m \in {"", "image/heif", "text/plain"}, o \in BOOLEAN,
            b \in {10, 23, 49, 50, 90, 91}, h \in Heads}

(* A HEIC file may hold no image at all. *)
Pictures ==
  {[Plain EXCEPT !.images = <<[image EXCEPT !.turned = t]>>, !.decodes = d,
                 !.predictions[1].box = At(1, 1, w, h)] :
     image \in {Size(16, 12), Size(9, 12), Size(10, 20), Size(24, 8), Size(15, 15), Size(16, 5)},
     t \in BOOLEAN, d \in BOOLEAN, w \in {1, 4}, h \in {1, 2, 3, 4}}

HeicHead == Ftyp(24, <<"heic", "0", "mif1", "heic">>)

HeicPictures == {With(p, HeicHead) : p \in Pictures}
                  \cup {With([Plain EXCEPT !.images = <<>>], HeicHead)}

(* On the plain photo the network sees 8 by 6 units: a chain of overlaps, a *)
(* small one inside, thin ones, one across a border and some beyond.        *)
Chain == {At(0, 1, 4, 4), At(1, 1, 4, 4), At(2, 1, 4, 4)}
Boxes == Chain \cup {At(1, 2, 1, 1), At(3, 1, 1, 5), At(6, 1, 4, 4), At(-2, -1, 4, 4),
                     At(8, 1, 2, 4), At(9, 2, 2, 4), At(2, 7, 4, 2), At(7, -2, 1, 9)}

Predicted(boxes, scores, n) ==
  UNION {[1 .. m -> [box : boxes, score : scores]] : m \in 0 .. n}

Detections ==
  {[Plain EXCEPT !.predictions = p, !.images = <<[Size(16, 12) EXCEPT !.turned = t]>>] :
     t \in BOOLEAN,
     p \in Predicted(Boxes, {49, 50, 80}, 2)
             \cup Predicted(Chain \cup {At(1, 2, 1, 1)}, {50, 80}, 3)}

Crops == {[Plain EXCEPT !.crop = c] : c \in
            {Flat, Grey(2, 2, <<<<0, 9>>, <<9, 0>>>>), Grey(3, 3, <<<<0, 0, 0>>, <<0, 9, 0>>, <<0, 0, 0>>>>)}
              \cup {Grey(4, 3, <<<<0, a, 0, 0>>, <<0, b, c1, 0>>, <<0, 0, 0, a>>>>) :
                      a \in {0, 1, 9}, b \in {0, 2, 9}, c1 \in {0, 3}}}

Row == {<<0, 0, 0>>, <<1, 0, 0>>, <<0, 1, 0>>, <<2, 1, 0>>}

Thumbs == {[Plain EXCEPT !.thumb = Grey(3, 2, <<r, s>>)] : r \in Row, s \in Row}

MCPhoto == Files \cup Pictures \cup HeicPictures \cup Detections \cup Crops \cup Thumbs

MCRawBox == Boxes \cup {At(1, 1, w, h) : w \in {1, 4}, h \in {1, 2, 3, 4}}

MCMinSecondaryArea == <<1, 10>>
MCMinFaceHeight == <<1, 4>>
MCFacePadding == <<3, 20>>
MCNmsIouThreshold == <<2, 5>>
=============================================================================
