------------------------------- MODULE Camera -------------------------------
(***************************************************************************)
(* The nodes of the camera's pipeline (rk_scale_node.cpp,                  *)
(* rk_codec_node.cpp, rk_exif_node.cpp): each stream delivers its frames,  *)
(* in a thread of its own, through the scaler, the encoder and the writer  *)
(* of EXIF data, while the client starts, stops and configures the         *)
(* streams.  A frame has two places, the memory at virAddr and the         *)
(* surface's, and a flag that says which of them holds it.  The encoder,   *)
(* the JPEG settings and the coordinates belong to the nodes and are       *)
(* shared by all streams.                                                  *)
(***************************************************************************)
EXTENDS Integers, Sequences, FiniteSets

CONSTANTS
  Streams,
  Types,            \* per stream, the encode types of its buffers
  Formats,          \* per stream, the formats its frames come in, and wanted by the client
  Size,             \* per stream, the size the client wants
  Arrivals,         \* how frames come: [size, valid, status]
  Payloads,         \* what the encoder may write
  Faults,           \* what may fail: "copy", "malloc", "blit", "create", "encode"
  MinIFrameBegin,   \* minIFrameBegin: so many frames get an encoder of their own
  MaxConfigs

VARIABLES
  running,       \* per stream, between Start and Stop
  frame,         \* per stream, the frame under way
  hal_mpp,       \* the mutex: the stream that holds it, or Nobody
  halCtx,        \* the encoder: the size it was made for, or Null
  mppStatus,
  settings,      \* jpegQuality_ and jpegRotation_: the Config each is of
  gpsInfo,       \* gpsInfo_: of each value, the Config it came with and its position
  config,        \* per stream, the Config call under way
  configs,       \* how many there were
  died,          \* at() threw, or an encoder was used that is gone
  late,          \* a frame was encoded after its stream had been stopped
  mixed,         \* a second video stream was started beside one
  overlapped     \* two Config calls were under way together

camVars == <<running, frame, hal_mpp, halCtx, mppStatus, settings, gpsInfo, config, configs,
             died, late, mixed, overlapped>>

Nobody == "nobody"
Null == "null"

(* what a place holds: nothing of this frame, an image, a picture, a stream *)
Content(w, f, z, d) == [what |-> w, fmt |-> f, size |-> z, data |-> d]
Old == Content("old", Null, Null, <<>>)
Image(f, z) == Content("image", f, z, <<>>)
Noise == Content("noise", Null, Null, <<>>)

NoFrame ==
  [at |-> "none", type |-> Null, want |-> Null, fmt |-> Null, size |-> Null, valid |-> FALSE,
   vir |-> Old, surf |-> Old, status |-> "OK", es |-> -1, key |-> 0, stamp |-> <<>>,
   refused |-> FALSE, raced |-> FALSE]
NoConfig == [at |-> "none", n |-> 0, jpeg |-> FALSE]

CamInit ==
  /\ running = [s \in Streams |-> FALSE]
  /\ frame = [s \in Streams |-> NoFrame]
  /\ hal_mpp = Nobody /\ halCtx = Null /\ mppStatus = 0
  /\ settings = [quality |-> 0, rotation |-> 0] /\ gpsInfo = <<>>
  /\ config = [s \in Streams |-> NoConfig] /\ configs = 0
  /\ died = FALSE /\ late = FALSE /\ mixed = FALSE /\ overlapped = FALSE

May(fault) == IF fault \in Faults THEN {TRUE, FALSE} ELSE {FALSE}
Step(s, f) == frame' = [frame EXCEPT ![s] = f]
encoderVars == <<hal_mpp, halCtx, mppStatus, late>>
clientVars == <<running, mixed, settings, gpsInfo, config, configs, overlapped>>

----------------------------------------------------------------------------
(* formats and sizes *)

RkFormats == {"rgba8888", "rgb888", "yuv420sp", "yuv420p"}
ConvertOhosFormat2RkFormat(f) == IF f \in RkFormats THEN f ELSE "unknown"

(* the scaler reads the place it is given as the frame it is said to be *)
RkRgaBlit(f, to, z) == IF f.vir = Image(f.fmt, f.size) THEN Image(to, z) ELSE Noise

(* TransformToFd and TransformToVirAddress: the surface or the memory takes
   the result.  Whether the scaler did it nobody asks, nor whether malloc
   failed. *)
Transformed(f, to, z, toFd) ==
  {IF fails THEN [f EXCEPT !.refused = TRUE, !.valid = IF toFd THEN TRUE ELSE @]
   ELSE IF toFd THEN [f EXCEPT !.surf = RkRgaBlit(f, to, z), !.valid = TRUE]
   ELSE [f EXCEPT !.vir = RkRgaBlit(f, to, z), !.valid = FALSE] :
     fails \in May("blit")}
  \union IF toFd \/ "malloc" \notin Faults THEN {} ELSE {[f EXCEPT !.refused = TRUE]}

(* the frames BufferScaleFormatTransform may leave *)
BufferScaleFormatTransform(f, s, to, toFd) ==
  IF f.fmt = to /\ f.size = Size[s] THEN {f}
  ELSE UNION {
    IF noCopy THEN {[f EXCEPT !.refused = TRUE]}
    ELSE LET g == IF f.valid THEN [f EXCEPT !.vir = f.surf] ELSE f
         IN IF "unknown" \in {ConvertOhosFormat2RkFormat(f.fmt), ConvertOhosFormat2RkFormat(to)}
            THEN {[g EXCEPT !.refused = TRUE]}
            ELSE {[h EXCEPT !.fmt = to, !.size = Size[s]] : h \in Transformed(g, to, Size[s], toFd)} :
    noCopy \in IF f.valid THEN May("copy") ELSE {FALSE}}

(* SerchIFps: from start code to start code, until one is a key frame's *)
NalType(p, i) == p[i + 1] % 32
FindStartCode(p, i) == Len(p) - i > 4 /\ SubSeq(p, i + 1, i + 4) = <<0, 0, 0, 1>>
SerchIFps(p) ==
  LET scan[i \in 0..Len(p)] ==
        IF i = Len(p) THEN 0
        ELSE IF ~ FindStartCode(p, i) THEN scan[i + 1]
        ELSE IF NalType(p, i + 4) = 5 THEN 1 ELSE scan[i + 4]
  IN scan[0]

----------------------------------------------------------------------------
(* the client *)

IsVideo(s) == "h264" \in Types[s]

Start(s) ==
  /\ ~ running[s]
  /\ running' = [running EXCEPT ![s] = TRUE]
  /\ mixed' = (mixed \/ (IsVideo(s) /\ \E r \in Streams \ {s} : IsVideo(r) /\ running[r]))
  /\ UNCHANGED <<frame, encoderVars, settings, gpsInfo, config, configs, died, overlapped>>

DeleteEncoder ==
  /\ hal_mpp = Nobody
  /\ halCtx' = Null
  /\ mppStatus' = IF halCtx # Null THEN 0 ELSE mppStatus

Stop(s) ==
  /\ running[s]
  /\ DeleteEncoder
  /\ running' = [running EXCEPT ![s] = FALSE]
  /\ UNCHANGED <<frame, hal_mpp, late, mixed, settings, gpsInfo, config, configs, died, overlapped>>

CancelCapture(s) ==
  /\ DeleteEncoder
  /\ UNCHANGED <<frame, hal_mpp, late, clientVars, died>>

(* Config of the encoder and then of the EXIF node; the tags of the JPEG
   settings may be missing, or those of the coordinates *)
Config(s) ==
  /\ config[s] = NoConfig /\ configs < MaxConfigs
  /\ configs' = configs + 1
  /\ \E jpeg \in BOOLEAN :
       config' = [config EXCEPT ![s] = [at |-> "rotation", n |-> configs + 1, jpeg |-> jpeg]]
  /\ overlapped' = (overlapped \/ \E r \in Streams : config[r] # NoConfig)
  /\ UNCHANGED <<running, mixed, frame, encoderVars, settings, gpsInfo, died>>

Goto(s, at) == config' = [config EXCEPT ![s] = IF at = "none" THEN NoConfig ELSE [@ EXCEPT !.at = at]]

ConfigJpeg(s, tag, next) ==
  /\ config[s].at = tag
  /\ Goto(s, next)
  /\ settings' = IF config[s].jpeg THEN [settings EXCEPT ![tag] = config[s].n] ELSE settings
  /\ UNCHANGED <<running, mixed, gpsInfo, configs, overlapped, frame, encoderVars, died>>

(* SetGpsInfoMetadata appends the three values one by one *)
ConfigGps(s, at, k, next) ==
  /\ config[s].at = at
  /\ \/ /\ gpsInfo' = Append(gpsInfo, <<config[s].n, k>>)
        /\ Goto(s, next)
     \/ k = 1 /\ Goto(s, "none") /\ UNCHANGED gpsInfo
  /\ UNCHANGED <<running, mixed, settings, configs, overlapped, frame, encoderVars, died>>

ConfigStep(s) ==
  \/ ConfigJpeg(s, "rotation", "quality")
  \/ ConfigJpeg(s, "quality", "gps1")
  \/ ConfigGps(s, "gps1", 1, "gps2")
  \/ ConfigGps(s, "gps2", 2, "gps3")
  \/ ConfigGps(s, "gps3", 3, "none")

(* settings or coordinates that may be changing *)
Configuring == \E s \in Streams : config[s] # NoConfig
Appending == \E s \in Streams : config[s].at \in {"gps1", "gps2", "gps3"}

----------------------------------------------------------------------------
(* a frame on its way; DeliverBuffer of one node after the other *)

Arrive(s) ==
  /\ frame[s].at = "none" /\ running[s]
  /\ \E t \in Types[s], c \in Formats[s], w \in Formats[s], a \in Arrivals :
       LET i == Image(c, a.size)
       IN Step(s, [NoFrame EXCEPT !.at = "scale", !.type = t, !.want = w, !.fmt = c, !.size = a.size,
                                  !.valid = a.valid, !.status = a.status,
                                  !.vir = IF a.valid THEN Old ELSE i,
                                  !.surf = IF a.valid THEN i ELSE Old])
  /\ UNCHANGED <<encoderVars, clientVars, died>>

(* RKScaleNode *)
Scale(s) ==
  /\ frame[s].at = "scale"
  /\ IF frame[s].status = "OK" /\ frame[s].type = "null"
     THEN \E f \in BufferScaleFormatTransform(frame[s], s, frame[s].want, TRUE) :
            Step(s, [f EXCEPT !.at = "codec"])
     ELSE Step(s, [frame[s] EXCEPT !.at = "codec"])
  /\ UNCHANGED <<encoderVars, clientVars, died>>

(* RKCodecNode: the format of the encoder is set for the transformation only *)
Codec(s) ==
  /\ frame[s].at = "codec"
  /\ LET f == frame[s]
         Go(to, toFd, next) ==
           \E g \in BufferScaleFormatTransform(f, s, to, toFd) : Step(s, [g EXCEPT !.at = next])
     IN CASE f.status # "OK" -> Step(s, [f EXCEPT !.at = "exif"])
          [] f.status = "OK" /\ f.type = "jpeg" -> Go("rgb888", FALSE, "jpeg")
          [] f.status = "OK" /\ f.type = "h264" -> Go("yuv420p", FALSE, "copy")
          [] f.status = "OK" /\ f.type = "null" -> Go(f.want, TRUE, "exif")
          [] OTHER -> Step(s, [f EXCEPT !.at = "exif"])
  /\ UNCHANGED <<encoderVars, clientVars, died>>

(* Yuv420ToJpeg: encoded with the quality of now ... *)
JpegEncode(s) ==
  /\ frame[s].at = "jpeg"
  /\ Step(s, [frame[s] EXCEPT
       !.at = "rotate",
       !.stamp = <<CASE frame[s].vir = Image("rgb888", Size[s]) -> "picture"
                     [] frame[s].vir = Old -> "leftover" [] OTHER -> "noise",
                   settings.quality, configs>>,
       !.raced = Configuring])
  /\ UNCHANGED <<encoderVars, clientVars, died>>

(* ... rotated by the rotation of then, unless it does not divide into
   blocks, and copied to the surface *)
JpegRotate(s) ==
  /\ frame[s].at = "rotate"
  /\ LET f == frame[s]
         out == Content(f.stamp[1], Null, Size[s], <<f.stamp[2], settings.rotation>>)
         g == [f EXCEPT !.at = "exif", !.stamp = <<>>, !.raced = @ \/ f.stamp[3] # configs]
     IN \E fails \in May("copy") :
          IF fails THEN Step(s, [g EXCEPT !.es = 0, !.refused = TRUE])
          ELSE Step(s, [g EXCEPT !.surf = out, !.valid = TRUE, !.es = 1])
  /\ UNCHANGED <<encoderVars, clientVars, died>>

(* Yuv420ToH264: the encoder reads the surface and writes the memory *)
H264Copy(s) ==
  /\ frame[s].at = "copy"
  /\ IF frame[s].valid THEN Step(s, [frame[s] EXCEPT !.at = "lock"])
     ELSE \E fails \in May("copy") :
            Step(s, IF fails THEN [frame[s] EXCEPT !.at = "exif", !.status = "INVALID", !.refused = TRUE]
                    ELSE [frame[s] EXCEPT !.at = "lock", !.surf = frame[s].vir])
  /\ UNCHANGED <<encoderVars, clientVars, died>>

EncoderLock(s) ==
  /\ frame[s].at = "lock" /\ hal_mpp = Nobody
  /\ \E fails \in IF halCtx = Null THEN May("create") ELSE {FALSE} :
       IF fails
       THEN /\ Step(s, [frame[s] EXCEPT !.at = "exif", !.refused = TRUE])
            /\ UNCHANGED <<hal_mpp, halCtx>>
       ELSE /\ Step(s, [frame[s] EXCEPT !.at = "encode"])
            /\ hal_mpp' = s
            /\ halCtx' = IF halCtx = Null THEN Size[s] ELSE halCtx
  /\ UNCHANGED <<mppStatus, late, clientVars, died>>

(* hal_mpp_encode, whose result nobody asks, and what becomes of the frame *)
H264Encode(s) ==
  /\ frame[s].at = "encode"
  /\ \E p \in Payloads, fails \in May("encode") :
       LET f == frame[s]
           made == Content(IF f.surf = Image("yuv420p", Size[s]) THEN "stream" ELSE "noise",
                           Null, halCtx, p)
           g == [f EXCEPT !.at = "exif", !.valid = FALSE]
       IN IF fails THEN Step(s, [g EXCEPT !.refused = TRUE])
          ELSE Step(s, [g EXCEPT !.vir = made, !.es = Len(p), !.key = SerchIFps(p)])
  /\ died' = (halCtx = Null)
  /\ hal_mpp' = Nobody
  /\ IF mppStatus < MinIFrameBegin
     THEN mppStatus' = mppStatus + 1 /\ halCtx' = Null
     ELSE UNCHANGED <<mppStatus, halCtx>>
  /\ late' = (late \/ ~ running[s])
  /\ UNCHANGED clientVars

(* RKExifNode: the first three coordinates there are, written to the memory;
   while one is appended, the vector may move under the reader's hands *)
Exif(s) ==
  /\ frame[s].at = "exif"
  /\ LET f == frame[s]
         out == [f EXCEPT !.at = "out"]
     IN IF f.type = "jpeg" /\ gpsInfo # <<>>
        THEN \E throws \in {Len(gpsInfo) < 3} \union IF Appending THEN {TRUE} ELSE {} :
               /\ died' = throws
               /\ \/ Step(s, out)
                  \/ /\ ~ throws /\ f.es # -1
                     /\ \E stamp \in {g \in {SubSeq(gpsInfo, 1, 3), <<>>} : Appending \/ g # <<>>} :
                          Step(s, [out EXCEPT !.vir = Content("exif", Null, Null, stamp),
                                              !.stamp = stamp, !.es = 2, !.raced = @ \/ Appending])
        ELSE Step(s, out) /\ UNCHANGED died
  /\ UNCHANGED <<encoderVars, clientVars>>

(* the frame goes on to the sink *)
DeliverBuffer(s) ==
  /\ frame[s].at = "out"
  /\ Step(s, NoFrame)
  /\ UNCHANGED <<encoderVars, clientVars, died>>

CamNext ==
  /\ ~ died
  /\ \E s \in Streams :
       \/ Start(s) \/ Stop(s) \/ CancelCapture(s) \/ Config(s) \/ ConfigStep(s)
       \/ Arrive(s) \/ Scale(s) \/ Codec(s) \/ JpegEncode(s) \/ JpegRotate(s)
       \/ H264Copy(s) \/ EncoderLock(s) \/ H264Encode(s) \/ Exif(s) \/ DeliverBuffer(s)

----------------------------------------------------------------------------
CamTypeOK ==
  /\ running \in [Streams -> BOOLEAN]
  /\ hal_mpp \in Streams \union {Nobody}
  /\ halCtx \in {Size[s] : s \in Streams} \union {Null}
  /\ mppStatus \in 0..MinIFrameBegin
  /\ settings \in [quality: 0..MaxConfigs, rotation: 0..MaxConfigs]
  /\ \A s \in Streams : config[s].n \in 0..MaxConfigs
  /\ \A s \in Streams : frame[s].status \in {"OK", "INVALID"} /\ frame[s].key \in {0, 1}

(* The encoder is there while a frame is encoded, no frame leaves one behind
   before the first MinIFrameBegin have each had their own, and when the
   last video stream has stopped it is gone: unless a frame was still on its
   way, for which it is made again and kept.  (RKCodecNode::Stop,
   rk_codec_node.cpp:47, Yuv420ToH264, :347) *)
EncoderIsTheStreams ==
  /\ hal_mpp # Nobody => halCtx # Null
  /\ halCtx # Null /\ hal_mpp = Nobody => mppStatus = MinIFrameBegin
  /\ ~ late /\ hal_mpp = Nobody /\ (\A s \in Streams : IsVideo(s) => ~ running[s]) => halCtx = Null

(* A frame that left the nodes with nothing refused is, in the place its flag
   names, what its client wants: the image in format and size; a stream of
   that size, with its length and with a key frame's mark if one is in it; a
   picture with the quality and the rotation of one Config, if none was under
   way.  But a picture is taken from the memory even when nothing was to
   transform and the surface had it.
   (BufferScaleFormatTransform, rk_node_utils.cpp:131) *)
FrameIsWhole ==
  \A s \in Streams :
    LET f == frame[s]
        place == IF f.valid THEN f.surf ELSE f.vir
    IN f.at = "out" /\ f.status = "OK" /\ ~ f.refused =>
         /\ f.type = "null" => place = Image(f.want, Size[s])
         /\ f.type = "h264" =>
              /\ place.what = "stream" /\ f.es = Len(place.data)
              /\ ~ late /\ ~ mixed => place.size = Size[s]
              /\ f.key = 1 <=> \E i \in 0..Len(place.data) - 5 :
                   FindStartCode(place.data, i) /\ NalType(place.data, i + 4) = 5
         /\ f.type = "jpeg" =>
              /\ place.what \in {"picture", "leftover"}
              /\ f.raced \/ overlapped \/ place.data[1] = place.data[2]

(* The coordinates come in threes, each three of one Config; a picture's are
   whole, and reading them throws nothing, as long as no Config is in the
   middle of appending and no two ever were.  (SetGpsInfoMetadata,
   rk_exif_node.cpp:154) *)
LocationIsWhole ==
  /\ ~ overlapped /\ ~ Appending =>
       \A i \in 1..Len(gpsInfo) :
         /\ gpsInfo[i][2] = ((i - 1) % 3) + 1
         /\ gpsInfo[i][1] = gpsInfo[((i - 1) \div 3) * 3 + 1][1]
         /\ Len(gpsInfo) % 3 = 0
  /\ died => overlapped \/ Appending
  /\ \A s \in Streams :
       frame[s].stamp # <<>> /\ frame[s].at = "out" /\ ~ overlapped /\ ~ frame[s].raced =>
         \A k \in 1..3 : frame[s].stamp[k] = <<frame[s].stamp[1][1], k>>

CamInvariant ==
  /\ CamTypeOK
  /\ EncoderIsTheStreams
  /\ FrameIsWhole
  /\ LocationIsWhole
=============================================================================
