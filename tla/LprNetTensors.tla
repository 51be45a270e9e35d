----------------------------- MODULE LprNetTensors -----------------------------
(***************************************************************************)
(* The tensors of the LPRNet recognizer: what is taken from the model's    *)
(* input descriptor, what the preprocessor writes into the workspace,      *)
(* which is reused and never cleared, and how the logits that come back    *)
(* are put into the order the decoder reads.  A tensor element is named by *)
(* the bytes of the image it is computed from; the arithmetic on their     *)
(* values, the same for every element of a channel, is left out.           *)
(***************************************************************************)
EXTENDS BilinearSampling, Sequences, FiniteSets

CONSTANTS maximum_timesteps, maximum_classes

-----------------------------------------------------------------------------
(* make_lprnet_input_spec of a descriptor [element_type, shape], a shape   *)
(* with -1 for a dimension the model leaves open: the specification, or    *)
(* nothing if the descriptor is refused.                                   *)

IsChannelDimension(n) == n \in {1, 3}

ColorOrderFits(channels, color_order) ==
    IF channels = 1 THEN color_order = "gray" ELSE color_order \in {"rgb", "bgr"}

Spec4(layout, channels, height, width, color_order) ==
    [layout |-> layout, channels |-> channels, height |-> height, width |-> width,
     color_order |-> color_order]

MakeInputSpec(descriptor, color_order) ==
    LET s == descriptor.shape
        nchw == IsChannelDimension(s[2])
        spec == IF nchw THEN Spec4("nchw", s[2], s[3], s[4], color_order)
                        ELSE Spec4("nhwc", s[4], s[2], s[3], color_order)
    IN  IF /\ descriptor.element_type = "float" /\ Len(s) = 4
           /\ s[1] \in {1, -1}
           /\ nchw # IsChannelDimension(s[4])
           /\ \A i \in 2..4 : s[i] > 0
           /\ ColorOrderFits(spec.channels, color_order)
        THEN {spec} ELSE {}

MakeShape(spec) ==
    IF spec.layout = "nchw" THEN <<1, spec.channels, spec.height, spec.width>>
                            ELSE <<1, spec.height, spec.width, spec.channels>>
TensorSize(spec) == spec.width * spec.height * spec.channels

-----------------------------------------------------------------------------
(* preprocess_into.                                                        *)

\* A gray channel is the luminance, made of all colours.
ColoursOf(color_order, channel) ==
    CASE color_order = "gray" -> {"red", "green", "blue"}
      [] color_order = "rgb" -> {<<"red", "green", "blue">>[channel + 1]}
      [] color_order = "bgr" -> {<<"blue", "green", "red">>[channel + 1]}

\* Mutant: the pixels of a plane are counted by its height.
ElementIndexByHeight(spec, channel, x, y) ==
    LET pixel == y * spec.height + x
    IN  IF spec.layout = "nchw" THEN channel * spec.width * spec.height + pixel
                                ELSE pixel * spec.channels + channel
ElementIndex(spec, channel, x, y) ==
    LET pixel == y * spec.width + x
    IN  IF spec.layout = "nchw" THEN channel * spec.width * spec.height + pixel
                                ELSE pixel * spec.channels + channel

Preprocess(image, spec) ==
    {[index |-> ElementIndex(spec, channel, x, y), channel |-> channel,
      samples |-> {BilinearSample(image, Axis(x, image.width, spec.width),
                                  Axis(y, image.height, spec.height), colour) :
                      colour \in ColoursOf(spec.color_order, channel)}] :
        channel \in 0..(spec.channels - 1),
        x \in 0..(spec.width - 1), y \in 0..(spec.height - 1)}

-----------------------------------------------------------------------------
(* LprNetOnnxOcrAdapter::decode up to the decoder: logits that are not of  *)
(* the configured shape are refused, the others put in timestep order.     *)

ClassCount(layout, shape) == IF layout = "bct" THEN shape[2] ELSE shape[3]
TimestepCount(layout, shape) == IF layout = "bct" THEN shape[3] ELSE shape[2]

DecodeAccepts(layout, shape, count, charset) ==
    /\ Len(shape) = 3 /\ shape[1] = 1 /\ shape[2] > 0 /\ shape[3] > 0
    /\ ClassCount(layout, shape) = charset + 1
    /\ TimestepCount(layout, shape) <= maximum_timesteps
    /\ ClassCount(layout, shape) <= maximum_classes
    /\ count = shape[2] * shape[3]

\* Where the decoder's logit of a timestep and a class, data[t * classes + c], is
\* in the session's output.
TimestepMajor(layout, shape) ==
    LET T == TimestepCount(layout, shape)
        C == ClassCount(layout, shape)
    IN  [p \in (0..(T - 1)) \X (0..(C - 1)) |->
            IF layout = "bct" THEN p[2] * T + p[1] ELSE p[1] * C + p[2]]
===============================================================================
